---------------------------- MODULE Spec2Model ----------------------------
(***************************************************************************)
(* State machine of the scene-state / input layer of the 3D viewer:        *)
(* MouseGrabber, CameraController, Camera, World and Model (src/src).      *)
(*                                                                         *)
(* Numbers.  The program computes in f32; the model computes in fixed      *)
(* point:                                                                  *)
(*   angles     in tenths of a degree  (sensitivity 0.1 deg per pixel is   *)
(*              one unit per pixel, rotation_speed 0.5 deg is 5 units),    *)
(*   lengths    in thousandths         (eye (0,0,2) is <<0,0,2000>>),      *)
(*   cur_scale  as the f32 it is, in units of 2^-30 (1.0 is 2^30; every    *)
(*              f32 between 2^-3 and 2 is a whole number of units), sums    *)
(*              rounded as f32 rounds them (F32Round).                      *)
(* Division rounds toward zero.  Sine and cosine are the integer           *)
(* approximation Sin/Cos below (exact at multiples of 30 and 90 degrees).  *)
(***************************************************************************)
EXTENDS Integers, Sequences, FiniteSets, TLC

VARIABLES
    down,            \* input device: the keys physically held down
    mouse_grabber,   \* MouseGrabber { mouse_locked }
    cursor_visible,  \* the window's hardware cursor (set_cursor_visible)
    cc,              \* CameraController
    camera,          \* Camera { eye, target, up }
    camera_uniform,  \* CameraUniform { view_proj }
    camera_buffer,   \* content of the GPU camera buffer
    world,           \* World, all fields but models
    models,          \* World::models, a sequence of Model
    frame,           \* number of Update phases executed so far
    pointer,         \* number of mouse-motion and wheel events so far
    control_flow,    \* the event loop: "run", or "exit" once exit was requested
    spin_hist,       \* the last (at most four) spin-key transitions
    recolor_hist,    \* the recolor key's last press and what it found
    size,            \* State::size, the window size the program holds
    config,          \* State::config, the surface configuration's width and height
    surface,         \* the surface: whether configured, and with which size
    depth_texture,   \* State::depth_texture, its width and height
    redraw_requested,\* whether the program has asked the window for another redraw
    cursor_position, \* the window's cursor, in physical pixels
    loads,           \* World::new: the state of each startup model load
    files,           \* the resource directory: file name -> bytes, or unreadable
    last             \* the event handled last and what its handler did

vars == <<down, mouse_grabber, cursor_visible, cc, camera, camera_uniform,
          camera_buffer, world, models, frame, pointer, control_flow,
          spin_hist, recolor_hist, size, config, surface, depth_texture,
          redraw_requested, cursor_position, loads, files, last>>

\* the window and surface state, and the startup and resource state
window_vars == <<size, config, surface, depth_texture, redraw_requested,
                 cursor_position>>
resource_vars == <<loads, files>>

---------------------------------------------------------------------------
(* Bounds of the exploration *)

\* Update phases explored under Spec (camera and help mode)
MaxFrames == 4
\* mouse-motion and wheel events explored under Spec
MaxPointer == 1
\* Update phases explored under SpecLook (yaw and pitch)
MaxLookFrames == 2
\* mouse-motion events explored under SpecLook
MaxLookPointer == 2
\* Update phases explored under SpecGrid (count keys, grid generation)
MaxGridFrames == 7
\* Update phases explored under SpecWorld (count, recolor and resize keys)
MaxWorldFrames == 2
\* Update phases explored under SpecSpin (spin key)
MaxSpinFrames == 5
\* materials of each loaded model
NumMaterials == 2
\* longest instance list handed to a Model under SpecModel
MaxInstances == 2
\* longest file content explored under SpecResources, in bytes
MaxFileLen == 3
\* most mouse-motion and wheel events, and most Update phases, explored under
\* SpecPointer
MaxPointerEvents == 2
MaxPointerFrames == 1
\* most mouse-motion events explored under SpecInput
MaxInputPointer == 1
\* most meshes of a model drawn under SpecDraw
MaxMeshes == 2
\* Update phases explored under SpecDraw
MaxDrawFrames == 1
\* Update phases explored under SpecStartup (startup loads, then the loop)
MaxStartupFrames == 2

\* SpecTotal: the longest model list, the most materials of a model, the
\* Update phases explored
MaxTotalModels == 2
MaxTotalMaterials == 1
MaxTotalFrames == 2
\* Update phases explored under SpecModel
MaxModelFrames == 2
\* most materials of a model, and longest run of change_material calls, under
\* SpecMaterial
MaxMaterials == 4
MaxMaterialCalls == 5
\* Update phases explored under SpecMaterial
MaxMaterialFrames == 2
\* Update phases explored under SpecResize: the scale takes 50 steps from 1.0
\* down to 0.5
MaxResizeFrames == 52
\* Update phases explored under SpecRender
MaxRenderFrames == 3
\* spin steps explored under SpecAngle
MaxSpinCalls == 60
\* Update phases explored under SpecRecolor
MaxRecolorFrames == 4
\* Update phases and mouse-motion events explored under SpecGrab (cursor lock)
MaxGrabFrames == 2
MaxGrabPointer == 1

---------------------------------------------------------------------------
(* Program constants, in the model's units *)

\* CameraController::new: sensitivity 0.1 degree per pixel = 1 unit per pixel
SensitivityUnits == 1
\* update_camera: rotation_speed 0.5 degree
RotationSpeed == 5
\* pitch.clamp(-89.0, 89.0)
PitchLimit == 890
\* yaw wrap at 360 degrees
YawWrap == 3600
\* State::new: CameraController::new(0.05), speed = 1/20
SpeedDivisor == 20
\* process_mouse_wheel: scroll * front * speed * 50.0
ScrollFactor == 50
\* fixed-point one
One == 1000
\* World::new: num_instances 5
InitialNumInstances == 5
\* update_world: SPACE_BETWEEN 3.0
SPACE_BETWEEN == 3
\* update_world: angle += 45.0
OriginExtraAngle == 450
\* update_world: 0.5 degree of spin per frame
SpinStep == 5
\* update_world: cur_angle wraps at 360.0
FullTurn == 3600
\* update_world: scale bounds 1.0 and 0.5, and the f32 nearest to 0.01
\* (0.00999999977648258209228515625), in units of 2^-30
ScaleMax == 1073741824
ScaleMin == 536870912
ScaleStep == 10737418
\* go_to_help: help cube rotation 270 degrees
HelpAngle == 2700
\* go_to_help: help cube scale 1.0
HelpScale == 1073741824

---------------------------------------------------------------------------
(* Arithmetic helpers *)

Abs(a) == IF a < 0 THEN -a ELSE a

\* let v stand for a value in F: With(e, LAMBDA v : body)
With(v, F(_)) == F(v)

\* spacing of the f32 values around v, v in units of 2^-30 (24-bit significand)
F32Quantum(v) ==
    IF Abs(v) >= 1073741824 THEN 128
    ELSE IF Abs(v) >= 536870912 THEN 64
    ELSE IF Abs(v) >= 268435456 THEN 32
    ELSE 16

\* the f32 result of an addition whose exact value is v: round to nearest,
\* ties to the even significand
F32Round(v) ==
    LET q == F32Quantum(v)
        r == v % q
        b == v - r
    IN IF 2 * r < q THEN b
       ELSE IF 2 * r > q THEN b + q
       ELSE IF (b \div q) % 2 = 0 THEN b ELSE b + q

\* division rounding toward zero
Quot(a, b) == IF a >= 0 THEN a \div b ELSE -((-a) \div b)

VAdd(u, v) == <<u[1] + v[1], u[2] + v[2], u[3] + v[3]>>
VSub(u, v) == <<u[1] - v[1], u[2] - v[2], u[3] - v[3]>>
\* v * num / den, component-wise
VScale(v, num, den) == <<Quot(v[1] * num, den), Quot(v[2] * num, den), Quot(v[3] * num, den)>>

RECURSIVE SqrtStep(_, _)
\* Newton iteration from above; ends at floor(sqrt(n))
SqrtStep(n, r) ==
    LET s == (r + n \div r) \div 2
    IN IF s >= r THEN r ELSE SqrtStep(n, s)
ISqrt(n) == IF n <= 0 THEN 0 ELSE SqrtStep(n, n)

\* cgmath InnerSpace::normalize
Normalize(v) ==
    LET len == ISqrt(v[1] * v[1] + v[2] * v[2] + v[3] * v[3])
    IN IF len = 0 THEN v ELSE VScale(v, One, len)

\* cgmath Vector3::cross; both arguments in thousandths
Cross(u, v) ==
    << Quot(u[2] * v[3] - u[3] * v[2], One),
       Quot(u[3] * v[1] - u[1] * v[3], One),
       Quot(u[1] * v[2] - u[2] * v[1], One) >>

\* sine of d tenths of a degree for 0 <= d <= 1800, in thousandths
SinHalfTurn(d) ==
    LET p == d * (1800 - d)
    IN (4 * p) \div ((4050000 - p) \div One)
Sin(d) ==
    LET r == d % 3600
    IN IF r <= 1800 THEN SinHalfTurn(r) ELSE -SinHalfTurn(r - 1800)
Cos(d) == Sin(d + 900)

\* the front direction both handlers compute from yaw and pitch
Front(yaw, pitch) ==
    Normalize(<< Quot(Cos(yaw) * Cos(pitch), One),
                 Sin(pitch),
                 Quot(Sin(yaw) * Cos(pitch), One) >>)


---------------------------------------------------------------------------
(* Input events *)

\* key codes the three consumers match on
CameraKeys == {"KeyW", "KeyA", "KeyS", "KeyD", "Space", "ShiftLeft",
               "ArrowLeft", "ArrowRight", "ArrowUp", "ArrowDown", "KeyH"}
WorldKeys == {"KeyJ", "KeyK", "Digit1", "Digit2", "Digit3", "KeyH"}
\* "KeyZ" stands for any key code no consumer matches
AllKeys == CameraKeys \cup WorldKeys \cup {"Escape", "KeyZ"}

---------------------------------------------------------------------------
(* Model: CPU instance list and its GPU mirror *)

\* Instance::to_raw: the per-instance data laid out for the vertex buffer
ToRaw(inst) ==
    <<"raw", inst.position[1], inst.position[2], inst.position[3],
      inst.rotation.axis[1], inst.rotation.axis[2], inst.rotation.axis[3],
      inst.rotation.angle, inst.scale>>

\* instances.iter().map(Instance::to_raw).collect(), the buffer's contents
InstanceData(instances) == [i \in 1..Len(instances) |-> ToRaw(instances[i])]

\* Model::new
Model_new(meshes, materials) ==
    [ meshes          |-> meshes,
      materials       |-> materials,
      visible         |-> TRUE,
      instances       |-> <<>>,
      instance_buffer |-> InstanceData(<<>>) ]

\* Model::set_instances
Model_set_instances(m, instances) ==
    [m EXCEPT !.instances = instances,
              !.instance_buffer = InstanceData(instances)]

\* variant of Model_add_instances that pushes without rebuilding the buffer
Model_add_instances_NoRebuild(m, instance) ==
    [m EXCEPT !.instances = Append(m.instances, instance)]

\* Model::add_instances
Model_add_instances(m, instance) ==
    LET pushed == Append(m.instances, instance)
    IN [m EXCEPT !.instances = pushed,
                 !.instance_buffer = InstanceData(pushed)]

\* variant of Model_change_material that wraps one step late
Model_change_material_LateWrap(m) ==
    LET next == m.meshes[1].material + 1
    IN [m EXCEPT !.meshes[1].material =
                     IF m.materials < next THEN 0 ELSE next]

\* Model::change_material
Model_change_material(m) ==
    LET next == m.meshes[1].material + 1
    IN [m EXCEPT !.meshes[1].material =
                     IF m.materials <= next THEN 0 ELSE next]

\* cgmath::Quaternion::from_axis_angle(unit_z, Deg(angle)), kept as axis and angle
FromAxisAngleZ(angle) == [axis |-> <<0, 0, 1>>, angle |-> angle]

---------------------------------------------------------------------------
(* DrawModel, DrawWorld: the commands recorded into the render pass *)

\* a GPU resource: its kind, the model that owns it (0: the State) and the
\* mesh or material index within that model
Resource(kind, owner, index) == [kind |-> kind, owner |-> owner, index |-> index]

\* State::camera_bind_group
CameraBindGroup == Resource("camera_bind_group", 0, 0)

\* DrawModel::draw_mesh_instanced for mesh j of model i
DrawModel_draw_mesh_instanced(i, j, material, instances, camera_bind_group) ==
    << [cmd |-> "set_vertex_buffer", slot |-> 0, buffer |-> Resource("vertex_buffer", i, j)],
       [cmd |-> "set_index_buffer", buffer |-> Resource("index_buffer", i, j)],
       [cmd |-> "set_bind_group", index |-> 0, group |-> material],
       [cmd |-> "set_bind_group", index |-> 1, group |-> camera_bind_group],
       [cmd |-> "draw_indexed", base_vertex |-> 0, instances |-> instances] >>

RECURSIVE DrawMeshes(_, _, _, _, _)
\* draw_model_instanced: the loop over the meshes of model i, from mesh j on
DrawMeshes(i, model, j, instances, camera_bind_group) ==
    IF j > Len(model.meshes) THEN <<>>
    ELSE << [cmd |-> "set_vertex_buffer", slot |-> 1,
             buffer |-> Resource("instance_buffer", i, 0)] >>
         \o DrawModel_draw_mesh_instanced(i, j,
                Resource("material", i, model.meshes[j].material),
                instances, camera_bind_group)
         \o DrawMeshes(i, model, j + 1, instances, camera_bind_group)

\* variant of DrawModel_draw_model_instanced that draws hidden models too
DrawModel_draw_model_instanced_Always(i, model, instances, camera_bind_group) ==
    DrawMeshes(i, model, 1, instances, camera_bind_group)

\* DrawModel::draw_model_instanced for model i
DrawModel_draw_model_instanced(i, model, instances, camera_bind_group) ==
    IF model.visible
    THEN DrawMeshes(i, model, 1, instances, camera_bind_group)
    ELSE <<>>

\* DrawModel::draw_model: the instance range 0..instances.len()
DrawModel_draw_model(i, model, camera_bind_group) ==
    DrawModel_draw_model_instanced(i, model, <<0, Len(model.instances)>>, camera_bind_group)

RECURSIVE DrawModels(_, _, _)
\* draw_world: the loop over the models, from model i on
DrawModels(ms, i, camera_bind_group) ==
    IF i > Len(ms) THEN <<>>
    ELSE DrawModel_draw_model(i, ms[i], camera_bind_group)
         \o DrawModels(ms, i + 1, camera_bind_group)

\* DrawWorld::draw_world
DrawWorld_draw_world(ms, camera_bind_group) == DrawModels(ms, 1, camera_bind_group)

---------------------------------------------------------------------------
(* MouseGrabber *)

\* variant of MouseGrabber_key that unlocks without showing the cursor again
MouseGrabber_key_KeepsHidden(mg, visible, keycode, is_pressed) ==
    IF keycode = "Escape" /\ is_pressed /\ mg.mouse_locked
    THEN [mg |-> [mg EXCEPT !.mouse_locked = FALSE], visible |-> visible, handled |-> TRUE]
    ELSE [mg |-> mg, visible |-> visible, handled |-> FALSE]

\* variant of MouseGrabber_key that unlocks without reporting the event handled
MouseGrabber_key_Unreported(mg, visible, keycode, is_pressed) ==
    IF keycode = "Escape" /\ is_pressed /\ mg.mouse_locked
    THEN [mg |-> [mg EXCEPT !.mouse_locked = FALSE], visible |-> TRUE, handled |-> FALSE]
    ELSE [mg |-> mg, visible |-> visible, handled |-> FALSE]

\* MouseGrabber::process_events on a KeyboardInput event
MouseGrabber_key(mg, visible, keycode, is_pressed) ==
    IF keycode = "Escape" /\ is_pressed /\ mg.mouse_locked
    THEN [mg |-> [mg EXCEPT !.mouse_locked = FALSE], visible |-> TRUE, handled |-> TRUE]
    ELSE [mg |-> mg, visible |-> visible, handled |-> FALSE]

\* MouseGrabber::process_mouse: the cursor position it leaves, given where
\* the cursor is
MouseGrabber_process_mouse(mg, sz, position) ==
    IF mg.mouse_locked THEN <<sz.width \div 2, sz.height \div 2>> ELSE position

\* variant of MouseGrabber_button that locks on a press of any button
MouseGrabber_button_AnyButton(mg, visible, button, is_pressed) ==
    IF is_pressed /\ ~mg.mouse_locked
    THEN [mg |-> [mg EXCEPT !.mouse_locked = TRUE], visible |-> FALSE, handled |-> TRUE]
    ELSE [mg |-> mg, visible |-> visible, handled |-> FALSE]

\* MouseGrabber::process_events on a MouseInput event
MouseGrabber_button(mg, visible, button, is_pressed) ==
    IF button = "Left" /\ is_pressed /\ ~mg.mouse_locked
    THEN [mg |-> [mg EXCEPT !.mouse_locked = TRUE], visible |-> FALSE, handled |-> TRUE]
    ELSE [mg |-> mg, visible |-> visible, handled |-> FALSE]

---------------------------------------------------------------------------
(* CameraController *)

\* CameraController::new
CameraController_new ==
    [ is_forward_pressed  |-> FALSE,
      is_backward_pressed |-> FALSE,
      is_left_pressed     |-> FALSE,
      is_right_pressed    |-> FALSE,
      is_up_pressed       |-> FALSE,
      is_down_pressed     |-> FALSE,
      is_looking_left     |-> FALSE,
      is_looking_right    |-> FALSE,
      is_looking_up       |-> FALSE,
      is_looking_down     |-> FALSE,
      is_h_pressed        |-> FALSE,
      is_being_helped     |-> TRUE,
      is_h_just_pressed   |-> FALSE,
      yaw                 |-> -900,
      pitch               |-> 0,
      eyecpy              |-> <<0, 1000, 2000>>,
      targetcpy           |-> <<0, 0, 0>> ]

\* variant of CameraController_key_h that sets the marker when help is entered
\* instead of when it is left
CameraController_key_h_MarkerOnEnter(c, is_pressed) ==
    LET c1 == [c EXCEPT !.is_h_pressed = is_pressed]
    IN IF is_pressed /\ ~c1.is_being_helped
       THEN [c1 EXCEPT !.is_h_just_pressed = TRUE, !.is_being_helped = TRUE]
       ELSE IF is_pressed /\ c1.is_being_helped
            THEN [c1 EXCEPT !.is_being_helped = FALSE]
            ELSE c1

\* the KeyH arm of CameraController::process_events
CameraController_key_h(c, is_pressed) ==
    LET c1 == [c EXCEPT !.is_h_pressed = is_pressed]
    IN IF is_pressed /\ ~c1.is_being_helped
       THEN [c1 EXCEPT !.is_being_helped = TRUE]
       ELSE IF is_pressed /\ c1.is_being_helped
            THEN [c1 EXCEPT !.is_h_just_pressed = TRUE, !.is_being_helped = FALSE]
            ELSE c1

\* variant of CameraController_process_events that acts on repeats of the help
\* key as well (the other latches are left out of the variant)
CameraController_process_events_OnRepeat(c, keycode, is_pressed, repeat) ==
    IF keycode \notin CameraKeys \/ (repeat /\ keycode # "KeyH")
    THEN [cc |-> c, handled |-> FALSE]
    ELSE IF keycode = "KeyH"
         THEN [cc |-> CameraController_key_h(c, is_pressed), handled |-> TRUE]
         ELSE [cc |-> c, handled |-> TRUE]

\* CameraController::process_events on a KeyboardInput event
CameraController_process_events(c, keycode, is_pressed, repeat) ==
    IF repeat \/ keycode \notin CameraKeys
    THEN [cc |-> c, handled |-> FALSE]
    ELSE [ handled |-> TRUE,
           cc |->
             CASE keycode = "KeyW"       -> [c EXCEPT !.is_forward_pressed = is_pressed]
               [] keycode = "KeyA"       -> [c EXCEPT !.is_left_pressed = is_pressed]
               [] keycode = "KeyS"       -> [c EXCEPT !.is_backward_pressed = is_pressed]
               [] keycode = "KeyD"       -> [c EXCEPT !.is_right_pressed = is_pressed]
               [] keycode = "Space"      -> [c EXCEPT !.is_up_pressed = is_pressed]
               [] keycode = "ShiftLeft"  -> [c EXCEPT !.is_down_pressed = is_pressed]
               [] keycode = "ArrowLeft"  -> [c EXCEPT !.is_looking_left = is_pressed]
               [] keycode = "ArrowRight" -> [c EXCEPT !.is_looking_right = is_pressed]
               [] keycode = "ArrowUp"    -> [c EXCEPT !.is_looking_up = is_pressed]
               [] keycode = "ArrowDown"  -> [c EXCEPT !.is_looking_down = is_pressed]
               [] keycode = "KeyH"       -> CameraController_key_h(c, is_pressed) ]

\* variant of WrapYaw that wraps at exactly 360 and -360 as well
WrapYaw_Inclusive(yaw) ==
    IF yaw >= YawWrap THEN yaw - YawWrap
    ELSE IF yaw <= -YawWrap THEN yaw + YawWrap
    ELSE yaw

\* the yaw wrap of process_mouse: one subtraction or addition of 360
WrapYaw(yaw) ==
    IF yaw > YawWrap THEN yaw - YawWrap
    ELSE IF yaw < -YawWrap THEN yaw + YawWrap
    ELSE yaw

\* variant of ClampPitch without the upper limit
ClampPitch_NoUpper(pitch) == IF pitch < -PitchLimit THEN -PitchLimit ELSE pitch

\* pitch.clamp(-89.0, 89.0)
ClampPitch(pitch) ==
    IF pitch < -PitchLimit THEN -PitchLimit
    ELSE IF pitch > PitchLimit THEN PitchLimit
    ELSE pitch

\* variant of CameraController_process_mouse that turns the camera in help
\* mode as well
CameraController_process_mouse_WhileHelped(c, dx, dy) ==
    [c EXCEPT !.yaw = WrapYaw(c.yaw + dx * SensitivityUnits),
              !.pitch = ClampPitch(c.pitch - dy * SensitivityUnits)]

\* CameraController::process_mouse
CameraController_process_mouse(c, dx, dy) ==
    IF ~c.is_being_helped
    THEN [c EXCEPT !.yaw = WrapYaw(c.yaw + dx * SensitivityUnits),
                   !.pitch = ClampPitch(c.pitch - dy * SensitivityUnits)]
    ELSE c

\* variant of CameraController_process_mouse_wheel that moves the target along
\* with the eye
CameraController_process_mouse_wheel_MovesTarget(c, scroll, cam) ==
    IF ~c.is_being_helped
    THEN [cam EXCEPT !.eye = VAdd(cam.eye,
                 VScale(Front(c.yaw, c.pitch), scroll * ScrollFactor, SpeedDivisor)),
                     !.target = VAdd(cam.target,
                 VScale(Front(c.yaw, c.pitch), scroll * ScrollFactor, SpeedDivisor))]
    ELSE cam

\* CameraController::process_mouse_wheel; returns the camera
CameraController_process_mouse_wheel(c, scroll, cam) ==
    IF ~c.is_being_helped
    THEN [cam EXCEPT !.eye = VAdd(cam.eye,
                 VScale(Front(c.yaw, c.pitch), scroll * ScrollFactor, SpeedDivisor))]
    ELSE cam

\* variant of HelpPose that moves the eye but leaves the target
HelpPose_EyeOnly(cam) == [cam EXCEPT !.eye = <<0, 0, 2000>>]

\* go_to_help: the pose forced while helped
HelpPose(cam) == [cam EXCEPT !.eye = <<0, 0, 2000>>, !.target = <<0, 0, 0>>]

\* go_to_help: the pose put back from the saved copy
RestorePose(c, cam) == [cam EXCEPT !.eye = c.eyecpy, !.target = c.targetcpy]

\* variant of SavesPose that copies the pose in help mode too
SavesPose_Always(c) == TRUE

\* go_to_help: whether this call copies the camera pose into eyecpy, targetcpy
SavesPose(c) == ~c.is_being_helped

\* go_to_help: whether this call takes the restore branch
Restores(c) == ~c.is_being_helped /\ c.is_h_just_pressed

\* go_to_help: the camera it leaves
GoToHelpCamera(c, cam) ==
    IF c.is_being_helped THEN HelpPose(cam)
    ELSE IF Restores(c) THEN RestorePose(c, cam)
    ELSE cam

\* CameraController::go_to_help
CameraController_go_to_help(c, cam) ==
    With(GoToHelpCamera(c, cam), LAMBDA cam2 :
        [ cc |-> IF SavesPose(c)
                 THEN [c EXCEPT !.is_h_just_pressed = FALSE,
                                !.eyecpy = cam2.eye,
                                !.targetcpy = cam2.target]
                 ELSE c,
          camera |-> cam2,
          restored |-> Restores(c) ])

\* the arrow-key rotation of update_camera
LookYaw(c) ==
    c.yaw - (IF c.is_looking_left THEN RotationSpeed ELSE 0)
          + (IF c.is_looking_right THEN RotationSpeed ELSE 0)
LookPitch(c) ==
    ClampPitch(c.pitch + (IF c.is_looking_up THEN RotationSpeed ELSE 0)
                       - (IF c.is_looking_down THEN RotationSpeed ELSE 0))

\* the translation of update_camera from the movement latches
MoveEye(c, eye, front, right) ==
    LET step(v) == VScale(v, 1, SpeedDivisor)
        e1 == IF c.is_forward_pressed THEN VAdd(eye, step(front)) ELSE eye
        e2 == IF c.is_backward_pressed THEN VSub(e1, step(front)) ELSE e1
        e3 == IF c.is_right_pressed THEN VAdd(e2, step(right)) ELSE e2
        e4 == IF c.is_left_pressed THEN VSub(e3, step(right)) ELSE e3
        e5 == IF c.is_up_pressed THEN VAdd(e4, <<0, One \div SpeedDivisor, 0>>) ELSE e4
        e6 == IF c.is_down_pressed THEN VSub(e5, <<0, One \div SpeedDivisor, 0>>) ELSE e5
    IN e6

\* update_camera: the body run while navigating, h being go_to_help's result
NavigationStep(h) ==
    With(LookYaw(h.cc), LAMBDA yaw :
    With(LookPitch(h.cc), LAMBDA pitch :
    With(Front(yaw, pitch), LAMBDA front :
    With(Normalize(Cross(front, h.camera.up)), LAMBDA right :
    With(MoveEye(h.cc, h.camera.eye, front, right), LAMBDA eye :
        [ cc |-> [h.cc EXCEPT !.yaw = yaw, !.pitch = pitch],
          camera |-> [h.camera EXCEPT !.eye = eye, !.target = VAdd(eye, front)],
          restored |-> h.restored ])))))

\* CameraController::update_camera
CameraController_update_camera(c, cam) ==
    With(CameraController_go_to_help(c, cam), LAMBDA h :
        IF ~h.cc.is_being_helped THEN NavigationStep(h) ELSE h)

---------------------------------------------------------------------------
(* Camera: the view-projection matrix; entries in thousandths *)

\* a cgmath::Matrix4: its four columns x, y, z, w, each a Vector4
Matrix4(c1, c2, c3, c4) == [x |-> c1, y |-> c2, z |-> c3, w |-> c4]

\* camera.rs: OPENGL_TO_WGPU_MATRIX; Matrix4::new takes its sixteen arguments
\* column by column
OPENGL_TO_WGPU_MATRIX ==
    Matrix4(<<One, 0, 0, 0>>,
            <<0, One, 0, 0>>,
            <<0, 0, One \div 2, One \div 2>>,
            <<0, 0, 0, One>>)

\* cgmath dot product; both arguments in thousandths
Dot(u, v) == Quot(u[1] * v[1] + u[2] * v[2] + u[3] * v[3], One)

\* cgmath Matrix4 * Vector4
Mat4MulVec(a, v) ==
    [r \in 1..4 |-> Quot(a.x[r] * v[1] + a.y[r] * v[2] + a.z[r] * v[3] + a.w[r] * v[4], One)]

\* cgmath Matrix4 * Matrix4: each column of b transformed by a
Mat4Mul(a, b) ==
    Matrix4(Mat4MulVec(a, b.x), Mat4MulVec(a, b.y), Mat4MulVec(a, b.z), Mat4MulVec(a, b.w))

\* cgmath Matrix4::look_at_rh(eye, center, up)
LookAtRh(eye, center, up) ==
    With(Normalize(VSub(center, eye)), LAMBDA f :
    With(Normalize(Cross(f, up)), LAMBDA s :
    With(Cross(s, f), LAMBDA u :
        Matrix4(<<s[1], u[1], -f[1], 0>>,
                <<s[2], u[2], -f[2], 0>>,
                <<s[3], u[3], -f[3], 0>>,
                <<-Dot(eye, s), -Dot(eye, u), Dot(eye, f), One>>))))

\* cotangent of d tenths of a degree, 0 < d < 1800, in thousandths
Cot(d) == Quot(Cos(d) * One, Sin(d))

\* cgmath::perspective(Deg(fovy), aspect, near, far)
Perspective(fovy, aspect, near, far) ==
    With(Cot(fovy \div 2), LAMBDA f :
        Matrix4(<<Quot(f * One, aspect), 0, 0, 0>>,
                <<0, f, 0, 0>>,
                <<0, 0, Quot((far + near) * One, near - far), -One>>,
                <<0, 0, Quot(2 * far * near, near - far), 0>>))

\* variant of Camera_build_view_projection_matrix that multiplies the view
\* before the projection
Camera_build_view_projection_matrix_ViewFirst(cam) ==
    With(LookAtRh(cam.eye, cam.target, cam.up), LAMBDA view :
    With(Perspective(cam.fovy, cam.aspect, cam.znear, cam.zfar), LAMBDA proj :
        Mat4Mul(Mat4Mul(OPENGL_TO_WGPU_MATRIX, view), proj)))

\* Camera::build_view_projection_matrix
Camera_build_view_projection_matrix(cam) ==
    With(LookAtRh(cam.eye, cam.target, cam.up), LAMBDA view :
    With(Perspective(cam.fovy, cam.aspect, cam.znear, cam.zfar), LAMBDA proj :
        Mat4Mul(Mat4Mul(OPENGL_TO_WGPU_MATRIX, proj), view)))

\* Matrix4 into [[f32; 4]; 4] and back: the array of the four columns
Matrix4_into_array(m) == <<m.x, m.y, m.z, m.w>>
Matrix4_from_array(a) == Matrix4(a[1], a[2], a[3], a[4])

\* variant of CameraUniform_update_view_proj that keeps the matrix it holds
CameraUniform_update_view_proj_Keep(uniform, cam) == uniform

\* CameraUniform::update_view_proj
CameraUniform_update_view_proj(uniform, cam) ==
    [uniform EXCEPT !.view_proj = Matrix4_into_array(Camera_build_view_projection_matrix(cam))]

\* CameraUniform::new: the identity matrix
CameraUniform_new ==
    [view_proj |-> Matrix4_into_array(
        Matrix4(<<One, 0, 0, 0>>, <<0, One, 0, 0>>, <<0, 0, One, 0>>, <<0, 0, 0, One>>))]

\* bytemuck::cast_slice(&[uniform]): the sixteen numbers in memory order
CastSlice(uniform) ==
    [i \in 1..16 |-> uniform.view_proj[((i - 1) \div 4) + 1][((i - 1) % 4) + 1]]

---------------------------------------------------------------------------
(* World *)

\* World::new, the fields besides models
World_new ==
    [ is_decrease_pressed     |-> FALSE,
      is_increase_pressed     |-> FALSE,
      is_spin                 |-> FALSE,
      is_spin_pressed         |-> FALSE,
      is_color_change         |-> FALSE,
      is_color_change_pressed |-> FALSE,
      cur_angle               |-> 0,
      cur_scale               |-> ScaleMax,
      is_resize               |-> FALSE,
      is_resize_pressed       |-> FALSE,
      is_upscalling           |-> FALSE,
      num_instances           |-> InitialNumInstances,
      initialized             |-> TRUE,
      is_help_pressed         |-> FALSE,
      is_being_helped         |-> TRUE,
      is_help_just_pressed    |-> FALSE ]

\* World::new, the models loaded from the resource list: the grid model and
\* the help model, each with one mesh on material 0
World_new_models ==
    << Model_new(<<[material |-> 0]>>, NumMaterials),
       Model_new(<<[material |-> 0]>>, NumMaterials) >>

\* variant of World_key_spin that flips is_spin on the release as well
World_key_spin_OnRelease(w, is_pressed) ==
    IF is_pressed /\ ~w.is_spin_pressed
    THEN [w EXCEPT !.is_spin = ~w.is_spin, !.is_spin_pressed = TRUE]
    ELSE IF ~is_pressed /\ w.is_spin_pressed
         THEN [w EXCEPT !.is_spin = ~w.is_spin, !.is_spin_pressed = FALSE]
         ELSE w

\* the Digit1 arm of World::process_events
World_key_spin(w, is_pressed) ==
    IF is_pressed /\ ~w.is_spin_pressed
    THEN [w EXCEPT !.is_spin = ~w.is_spin, !.is_spin_pressed = TRUE]
    ELSE IF ~is_pressed /\ w.is_spin_pressed
         THEN [w EXCEPT !.is_spin_pressed = FALSE]
         ELSE w

\* the Digit3 arm of World::process_events
World_key_resize(w, is_pressed) ==
    IF is_pressed /\ ~w.is_resize_pressed
    THEN [w EXCEPT !.is_resize = ~w.is_resize, !.is_resize_pressed = TRUE]
    ELSE IF ~is_pressed /\ w.is_resize_pressed
         THEN [w EXCEPT !.is_resize_pressed = FALSE]
         ELSE w

\* variant of World_key_h that leaves help mode without setting the one-shot marker
World_key_h_NoMarker(w, is_pressed) ==
    LET w1 == [w EXCEPT !.is_help_pressed = is_pressed]
    IN IF is_pressed
       THEN [w1 EXCEPT !.is_being_helped = ~w1.is_being_helped]
       ELSE w1

\* the KeyH arm of World::process_events
World_key_h(w, is_pressed) ==
    LET w1 == [w EXCEPT !.is_help_pressed = is_pressed]
    IN IF is_pressed /\ ~w1.is_being_helped
       THEN [w1 EXCEPT !.is_being_helped = TRUE]
       ELSE IF is_pressed /\ w1.is_being_helped
            THEN [w1 EXCEPT !.is_help_just_pressed = TRUE, !.is_being_helped = FALSE]
            ELSE w1

\* variant of World_process_events that acts on repeated key events as well
World_process_events_OnRepeat(w, keycode, is_pressed, repeat) ==
    IF keycode \notin WorldKeys
    THEN [world |-> w, handled |-> FALSE]
    ELSE [ handled |-> TRUE,
           world |->
             CASE keycode = "KeyJ"   -> [w EXCEPT !.is_increase_pressed = is_pressed]
               [] keycode = "KeyK"   -> [w EXCEPT !.is_decrease_pressed = is_pressed]
               [] keycode = "Digit1" -> [w EXCEPT !.is_spin = ~w.is_spin]
               [] keycode = "Digit2" -> [w EXCEPT !.is_color_change = is_pressed]
               [] keycode = "Digit3" -> [w EXCEPT !.is_resize = ~w.is_resize]
               [] keycode = "KeyH"   -> World_key_h(w, is_pressed) ]

\* World::process_events on a KeyboardInput event
World_process_events(w, keycode, is_pressed, repeat) ==
    IF repeat \/ keycode \notin WorldKeys
    THEN [world |-> w, handled |-> FALSE]
    ELSE [ handled |-> TRUE,
           world |->
             CASE keycode = "KeyJ"   -> [w EXCEPT !.is_increase_pressed = is_pressed]
               [] keycode = "KeyK"   -> [w EXCEPT !.is_decrease_pressed = is_pressed]
               [] keycode = "Digit1" -> World_key_spin(w, is_pressed)
               [] keycode = "Digit2" -> [w EXCEPT !.is_color_change = is_pressed]
               [] keycode = "Digit3" -> World_key_resize(w, is_pressed)
               [] keycode = "KeyH"   -> World_key_h(w, is_pressed) ]

\* variant of CountStep that decrements without testing num_instances > 0
CountStep_NoFloor(w, change0) ==
    LET n1 == IF w.is_increase_pressed THEN w.num_instances + 1 ELSE w.num_instances
        c1 == IF w.is_increase_pressed THEN TRUE ELSE change0
    IN [ n |-> IF w.is_decrease_pressed THEN n1 - 1 ELSE n1,
         change |-> IF w.is_decrease_pressed THEN ~c1 ELSE c1 ]

\* variant of CountStep that stops increasing at a ceiling of six
CountStep_Capped(w, change0) ==
    LET inc == w.is_increase_pressed /\ w.num_instances < 6
        n1 == IF inc THEN w.num_instances + 1 ELSE w.num_instances
        c1 == IF inc THEN TRUE ELSE change0
        dec == w.is_decrease_pressed /\ n1 > 0
    IN [ n |-> IF dec THEN n1 - 1 ELSE n1,
         change |-> IF dec THEN ~c1 ELSE c1 ]

\* update_world: the count keys; returns num_instances and change_occurred
CountStep(w, change0) ==
    LET n1 == IF w.is_increase_pressed THEN w.num_instances + 1 ELSE w.num_instances
        c1 == IF w.is_increase_pressed THEN TRUE ELSE change0
        dec == w.is_decrease_pressed /\ n1 > 0
    IN [ n |-> IF dec THEN n1 - 1 ELSE n1,
         change |-> IF dec THEN ~c1 ELSE c1 ]

\* update_world: the spin step of cur_angle
SpinAngle(angle, n) ==
    LET a == angle + SpinStep + 10 * (n \div 200) + 10 * (n \div 1000)
    IN IF a >= FullTurn THEN a - FullTurn ELSE a

\* update_world: the resize step; returns cur_scale and is_upscalling
ResizeStep(scale, upscalling) ==
    IF upscalling
    THEN [ scale |-> F32Round(scale + ScaleStep),
           up |-> IF F32Round(scale + ScaleStep) >= ScaleMax THEN FALSE ELSE upscalling ]
    ELSE [ scale |-> F32Round(scale - ScaleStep),
           up |-> IF F32Round(scale - ScaleStep) <= ScaleMin THEN TRUE ELSE upscalling ]

\* variant of CellCoord that halves n in integers
CellCoord_IntegerHalf(i, n) == One * SPACE_BETWEEN * (i - n \div 2)

\* update_world: position of grid cell (x, z), SPACE_BETWEEN * (x - n / 2.0)
CellCoord(i, n) == (One * SPACE_BETWEEN * (2 * i - n)) \div 2
CellPosition(x, z, n) == <<CellCoord(x, n), 0, CellCoord(z, n)>>

RECURSIVE RowAngle(_, _, _, _)
\* update_world: the value of the row closure's own copy of angle once it has
\* produced cells 0..x of row z; every row's closure starts from cur_angle
RowAngle(x, z, n, cur_angle) ==
    LET before == IF x = 0 THEN cur_angle ELSE RowAngle(x - 1, z, n, cur_angle)
    IN IF CellPosition(x, z, n) = <<0, 0, 0>>
       THEN before + OriginExtraAngle
       ELSE before

\* update_world: the instance list, rows z outermost, x within the row
GridInstances(n, cur_angle, cur_scale) ==
    [ i \in 1..(IF n > 0 THEN n * n ELSE 0) |->
        LET x == (i - 1) % n
            z == (i - 1) \div n
        IN [ position |-> CellPosition(x, z, n),
             rotation |-> FromAxisAngleZ(RowAngle(x, z, n, cur_angle)),
             scale    |-> cur_scale ] ]

\* update_world: the recolor edge
RecolorEdge(w) == w.is_color_change /\ ~w.is_color_change_pressed

\* update_world: is_color_change_pressed after the recolor step
ColorPressed(w) ==
    IF RecolorEdge(w) THEN TRUE
    ELSE IF ~w.is_color_change THEN FALSE
    ELSE w.is_color_change_pressed

\* update_world: the end of the body: models[0] recoloured and, when
\* change_occurred, given the regenerated grid
UpdateModels(w, ms, n, angle, scale, change) ==
    With(IF RecolorEdge(w) THEN Model_change_material(ms[1]) ELSE ms[1], LAMBDA m :
        [ms EXCEPT ![1] = IF change
                          THEN Model_set_instances(m, GridInstances(n, angle, scale))
                          ELSE m])

\* World::update_world
World_update_world(w, ms) ==
    IF w.is_being_helped
    THEN [world |-> w, models |-> ms, change_occurred |-> FALSE, recolor |-> FALSE]
    ELSE
      With(CountStep(w, w.initialized), LAMBDA cnt :
      With(IF w.is_spin THEN SpinAngle(w.cur_angle, cnt.n) ELSE w.cur_angle, LAMBDA angle :
      With(IF w.is_resize
           THEN ResizeStep(w.cur_scale, w.is_upscalling)
           ELSE [scale |-> w.cur_scale, up |-> w.is_upscalling], LAMBDA rs :
      With(cnt.change \/ w.is_spin \/ RecolorEdge(w) \/ w.is_resize, LAMBDA change :
        [ world |-> [w EXCEPT !.initialized = FALSE,
                              !.num_instances = cnt.n,
                              !.cur_angle = angle,
                              !.is_color_change_pressed = ColorPressed(w),
                              !.cur_scale = rs.scale,
                              !.is_upscalling = rs.up],
          models |-> UpdateModels(w, ms, cnt.n, angle, rs.scale, change),
          change_occurred |-> change,
          recolor |-> RecolorEdge(w) ]))))

\* go_to_help: the single instance of the help cube
HelpInstances ==
    << [ position |-> <<0, 0, -One>>,
         rotation |-> FromAxisAngleZ(HelpAngle),
         scale    |-> HelpScale ] >>

\* World::go_to_help
World_go_to_help(w, ms) ==
    IF w.is_being_helped
    THEN [ world |-> w,
           models |-> [ms EXCEPT ![2] = [Model_set_instances(ms[2], HelpInstances)
                                             EXCEPT !.visible = TRUE],
                                 ![1].visible = FALSE] ]
    ELSE IF w.is_help_just_pressed
         THEN [ world |-> [w EXCEPT !.is_help_just_pressed = FALSE],
                models |-> [ms EXCEPT ![2].visible = FALSE, ![1].visible = TRUE] ]
         ELSE [world |-> w, models |-> ms]

---------------------------------------------------------------------------
(* State: construction and the event loop's handlers *)

\* the window's inner size when State::new reads it
InitialSize == [width |-> 800, height |-> 600]

\* State::new: the camera; fovy in tenths of a degree, aspect in thousandths
Camera_new ==
    [ eye    |-> <<0, 1000, 2000>>,
      target |-> <<0, 0, 0>>,
      up     |-> <<0, One, 0>>,
      aspect |-> Quot(InitialSize.width * One, InitialSize.height),
      fovy   |-> 450,
      znear  |-> 100,
      zfar   |-> 100000 ]

\* State::new: the camera uniform, updated once, and the camera buffer
\* created from it
State_new_camera ==
    /\ camera = Camera_new
    /\ camera_uniform = CameraUniform_update_view_proj(CameraUniform_new, Camera_new)
    /\ camera_buffer = CastSlice(CameraUniform_update_view_proj(CameraUniform_new, Camera_new))

\* State::new: size, config and the depth texture take the window's inner size;
\* the surface is created but not configured; no redraw has been requested
State_new_window ==
    /\ size = InitialSize
    /\ config = InitialSize
    /\ surface = [configured |-> FALSE, width |-> 0, height |-> 0]
    /\ depth_texture = InitialSize
    /\ redraw_requested = FALSE
    /\ cursor_position = <<0, 0>>

\* a file of the resource directory that can be read, with its bytes, and an
\* entry that cannot (a directory, no permission)
ReadableFile(bytes) == [readable |-> TRUE, bytes |-> bytes]
UnreadableFile == [readable |-> FALSE, bytes |-> <<>>]

\* the resource directory OUT_DIR/res of a build: the file the tests read,
\* "Hello World!"
ResourceDir ==
    [name \in {"test_files/hello_world.txt"} |->
        ReadableFile(<<72, 101, 108, 108, 111, 32, 87, 111, 114, 108, 100, 33>>)]

\* World::new has returned: every startup load finished with a model
World_new_loaded ==
    /\ loads = <<"loaded", "loaded">>
    /\ files = ResourceDir

Init ==
    /\ down = {}
    /\ mouse_grabber = [mouse_locked |-> FALSE]
    /\ cursor_visible = TRUE
    /\ cc = CameraController_new
    /\ State_new_camera
    /\ world = World_new
    /\ models = World_new_models
    /\ frame = 0
    /\ pointer = 0
    /\ control_flow = "run"
    /\ spin_hist = <<>>
    /\ recolor_hist = [state |-> "none", material |-> 0, nav |-> FALSE, helped |-> FALSE]
    /\ State_new_window
    /\ World_new_loaded
    /\ last = [op |-> "new"]

\* what last.wheel holds for an event that is not a wheel event
NoWheel == [kind |-> "none", scroll |-> 0]

\* the keyboard delivers a press of a key that is up, a repeat of a key that is
\* held, and a release of a key that is held
KeyboardDelivers(keycode, is_pressed, repeat) ==
    IF is_pressed
    THEN (repeat <=> keycode \in down)
    ELSE ~repeat /\ keycode \in down

\* the spin-key transitions seen so far, the last four of them
SpinHistory(hist, keycode, is_pressed, repeat, w) ==
    IF keycode = "Digit1" /\ ~repeat
    THEN LET h == Append(hist, [pressed |-> is_pressed, is_spin |-> w.is_spin])
         IN IF Len(h) > 4 THEN Tail(h) ELSE h
    ELSE hist

\* variant of State_input_key that stops at the first consumer that reports
\* the event handled
State_input_key_ShortCircuit(keycode, is_pressed, repeat) ==
    With(MouseGrabber_key(mouse_grabber, cursor_visible, keycode, is_pressed), LAMBDA g :
    With(IF g.handled THEN [cc |-> cc, handled |-> FALSE]
         ELSE CameraController_process_events(cc, keycode, is_pressed, repeat), LAMBDA c :
    With(IF g.handled \/ c.handled THEN [world |-> world, handled |-> FALSE]
         ELSE World_process_events(world, keycode, is_pressed, repeat), LAMBDA w :
        [ mouse_grabber |-> g.mg, cursor_visible |-> g.visible,
          cc |-> c.cc, world |-> w.world,
          handled |-> [grabber |-> g.handled, controller |-> c.handled,
                       world |-> w.handled],
          result |-> (w.handled \/ (c.handled \/ g.handled)) ])))

\* the recolor key's last press: the material index of the grid model's mesh 0
\* when the key went down, whether the key is still held or was released
\* since, whether the world has been navigating ever since the press, and
\* whether the press was received in help mode and help was not entered anew
\* since
RecolorHistory(hist, keycode, is_pressed, repeat, w, ms) ==
    IF repeat THEN hist
    ELSE IF keycode = "Digit2"
    THEN IF is_pressed
         THEN [state |-> "held",
               material |-> IF Len(ms) > 0 /\ Len(ms[1].meshes) > 0
                            THEN ms[1].meshes[1].material ELSE 0,
               nav |-> ~w.is_being_helped, helped |-> w.is_being_helped]
         ELSE IF hist.state = "held" THEN [hist EXCEPT !.state = "released"] ELSE hist
    ELSE IF keycode = "KeyH" /\ is_pressed
    THEN [hist EXCEPT !.nav = FALSE, !.helped = hist.helped /\ w.is_being_helped]
    ELSE hist

\* State::input on a KeyboardInput event: all three consumers, in order
State_input_key(keycode, is_pressed, repeat) ==
    With(MouseGrabber_key(mouse_grabber, cursor_visible, keycode, is_pressed), LAMBDA g :
    With(CameraController_process_events(cc, keycode, is_pressed, repeat), LAMBDA c :
    With(World_process_events(world, keycode, is_pressed, repeat), LAMBDA w :
        [ mouse_grabber |-> g.mg, cursor_visible |-> g.visible,
          cc |-> c.cc, world |-> w.world,
          handled |-> [grabber |-> g.handled, controller |-> c.handled,
                       world |-> w.handled],
          result |-> (w.handled \/ (c.handled \/ g.handled)) ])))

\* run: a KeyboardInput window event
KeyboardInput(keycode, is_pressed, repeat) ==
    /\ control_flow = "run"
    /\ KeyboardDelivers(keycode, is_pressed, repeat)
    /\ \E r \in {State_input_key(keycode, is_pressed, repeat)} :
          /\ mouse_grabber' = r.mouse_grabber
          /\ cursor_visible' = r.cursor_visible
          /\ cc' = r.cc
          /\ world' = r.world
          /\ control_flow' = IF ~r.result /\ keycode = "Escape" /\ is_pressed /\ ~repeat
                             THEN "exit" ELSE control_flow
          /\ last' = [op |-> "event", wheel |-> NoWheel]
    /\ down' = IF is_pressed THEN down \cup {keycode} ELSE down \ {keycode}
    /\ spin_hist' = SpinHistory(spin_hist, keycode, is_pressed, repeat, world)
    /\ recolor_hist' = RecolorHistory(recolor_hist, keycode, is_pressed, repeat, world, models)
    /\ UNCHANGED <<camera, camera_uniform, camera_buffer, models, frame, pointer,
                   window_vars, resource_vars>>

\* State::input on a MouseInput event: the grabber acts on it; the camera
\* controller and the world match keyboard events only
State_input_button(button, is_pressed) ==
    With(MouseGrabber_button(mouse_grabber, cursor_visible, button, is_pressed), LAMBDA g :
        [ mouse_grabber |-> g.mg, cursor_visible |-> g.visible,
          handled |-> [grabber |-> g.handled, controller |-> FALSE, world |-> FALSE],
          result |-> g.handled ])

\* run: a MouseInput window event
MouseInput(button, is_pressed) ==
    /\ control_flow = "run"
    /\ \E r \in {State_input_button(button, is_pressed)} :
          /\ mouse_grabber' = r.mouse_grabber
          /\ cursor_visible' = r.cursor_visible
          /\ last' = [op |-> "event", wheel |-> NoWheel]
    /\ UNCHANGED <<down, cc, camera, camera_uniform, camera_buffer, world, models,
                   frame, pointer, control_flow, spin_hist, recolor_hist, window_vars, resource_vars>>

\* run: a MouseMotion device event, State::process_mouse_movement; the
\* window system has moved the cursor by the same delta
MouseMotion(dx, dy) ==
    /\ control_flow = "run"
    /\ cc' = IF mouse_grabber.mouse_locked
             THEN CameraController_process_mouse(cc, dx, dy)
             ELSE cc
    /\ cursor_position' =
          MouseGrabber_process_mouse(mouse_grabber, size,
                                     <<cursor_position[1] + dx, cursor_position[2] + dy>>)
    /\ pointer' = pointer + 1
    /\ last' = [op |-> "event", wheel |-> NoWheel]
    /\ UNCHANGED <<down, mouse_grabber, cursor_visible, camera, camera_uniform,
                   camera_buffer, world, models, frame, control_flow, spin_hist,
                   recolor_hist, size, config, surface, depth_texture,
                   redraw_requested, resource_vars>>

\* run: a MouseWheel window event, State::process_mouse_wheel
MouseWheel(delta) ==
    /\ control_flow = "run"
    /\ camera' = IF mouse_grabber.mouse_locked /\ delta.kind = "LineDelta"
                 THEN CameraController_process_mouse_wheel(cc, delta.scroll, camera)
                 ELSE camera
    /\ pointer' = pointer + 1
    /\ last' = [op |-> "event", wheel |-> delta]
    /\ UNCHANGED <<down, mouse_grabber, cursor_visible, cc, camera_uniform,
                   camera_buffer, world, models, frame, control_flow, spin_hist, recolor_hist, window_vars, resource_vars>>

\* State::update
State_update ==
    With(World_update_world(world, models), LAMBDA u :
    With(World_go_to_help(u.world, u.models), LAMBDA g :
    With(CameraController_update_camera(cc, camera), LAMBDA c :
    With(CameraUniform_update_view_proj(camera_uniform, c.camera), LAMBDA uniform :
        [ world |-> g.world, models |-> g.models, cc |-> c.cc, camera |-> c.camera,
          camera_uniform |-> uniform, camera_buffer |-> CastSlice(uniform),
          change_occurred |-> u.change_occurred,
          recolor |-> u.recolor,
          restored |-> c.restored ]))))

\* State::render: the commands it submits: none when the surface gives no
\* texture, the world's draw commands otherwise
RenderCommands(s, outcome) ==
    IF outcome = "Ok" THEN DrawWorld_draw_world(s.models, CameraBindGroup) ELSE <<>>

\* variant of State_render that leaves every model hidden after drawing
State_render_HidesModels(s, outcome) ==
    [ scene    |-> [s EXCEPT !.models =
                     [i \in 1..Len(s.models) |-> [s.models[i] EXCEPT !.visible = FALSE]]],
      result   |-> outcome,
      commands |-> RenderCommands(s, outcome) ]

\* State::render on the scene s that Update left: it records and submits the
\* draw commands for s and writes no field of the scene; the result is the
\* surface's answer
State_render(s, outcome) ==
    [scene |-> s, result |-> outcome, commands |-> RenderCommands(s, outcome)]

\* Model::change_material indexes self.meshes[0]: out of range for a model
\* without meshes
Model_change_material_panics(m) == Len(m.meshes) = 0

\* World::update_world indexes self.models[0] on the recolor edge and when
\* change_occurred
World_update_world_panics(w, ms) ==
    /\ ~w.is_being_helped
    /\ IF Len(ms) = 0
       THEN CountStep(w, w.initialized).change \/ w.is_spin \/ RecolorEdge(w)
            \/ w.is_resize
       ELSE RecolorEdge(w) /\ Model_change_material_panics(ms[1])

\* World::go_to_help indexes self.models[1] and self.models[0] in help mode and
\* on the Update that follows the leaving of help
World_go_to_help_panics(w, ms) ==
    /\ w.is_being_helped \/ w.is_help_just_pressed
    /\ Len(ms) < 2

\* State::update: update_world, then go_to_help on what it left
State_update_panics ==
    IF World_update_world_panics(world, models) THEN TRUE
    ELSE With(World_update_world(world, models), LAMBDA u :
              World_go_to_help_panics(u.world, u.models))

\* draw_model_instanced indexes model.materials[mesh.material] for every mesh
\* of a visible model
DrawModel_draw_model_instanced_panics(model) ==
    /\ model.visible
    /\ \E j \in DOMAIN model.meshes : model.meshes[j].material >= model.materials

\* draw_world: the loop over the models
DrawWorld_draw_world_panics(ms) ==
    \E i \in DOMAIN ms : DrawModel_draw_model_instanced_panics(ms[i])

\* a RedrawRequested event panics in Update or, when the surface gave a
\* texture, in the draw traversal over the scene Update left
RedrawPanics(outcome) ==
    IF State_update_panics THEN TRUE
    ELSE outcome = "Ok" /\ DrawWorld_draw_world_panics(State_update.models)

\* run: a RedrawRequested window event whose Update or Render indexes out of
\* range: the thread panics after the redraw was requested
RedrawRequestedPanics(outcome) ==
    /\ control_flow = "run"
    /\ RedrawPanics(outcome)
    /\ control_flow' = "panicked"
    /\ redraw_requested' = TRUE
    /\ last' = [op |-> "panic", helped |-> world.is_being_helped,
                in_update |-> State_update_panics]
    /\ UNCHANGED <<down, mouse_grabber, cursor_visible, cc, camera, camera_uniform,
                   camera_buffer, world, models, frame, pointer, spin_hist,
                   recolor_hist, size, config, surface, depth_texture,
                   cursor_position, resource_vars>>

\* the results of State::render the event loop distinguishes
RenderOutcomes == {"Ok", "Lost", "Outdated", "OutOfMemory", "Timeout"}

\* State::resize: whether the call stores new_size and configures the surface
Reconfigures(new_size) == new_size.width > 0 /\ new_size.height > 0

\* State::resize with the sizes the program holds in d
State_resize(d, new_size) ==
    With(IF Reconfigures(new_size)
         THEN [d EXCEPT !.size = new_size,
                        !.config = new_size,
                        !.surface = [configured |-> TRUE, width |-> new_size.width,
                                     height |-> new_size.height]]
         ELSE d, LAMBDA e :
        [e EXCEPT !.depth_texture = e.config])

\* the sizes the program holds, as State::resize takes them
Display == [size |-> size, config |-> config, surface |-> surface,
            depth_texture |-> depth_texture]

\* variant of RenderErrorMatch that ignores a lost surface
RenderErrorMatch_LostIgnored(outcome) ==
    [ reconfigure |-> outcome = "Outdated",
      exit        |-> outcome = "OutOfMemory" ]

\* variant of RenderErrorMatch that gives up on a timeout as well
RenderErrorMatch_TimeoutExits(outcome) ==
    [ reconfigure |-> outcome \in {"Lost", "Outdated"},
      exit        |-> outcome \in {"OutOfMemory", "Timeout"} ]

\* run: the match on State::render's result: whether the surface is
\* reconfigured and whether the event loop is asked to exit
RenderErrorMatch(outcome) ==
    [ reconfigure |-> outcome \in {"Lost", "Outdated"},
      exit        |-> outcome = "OutOfMemory" ]

\* run: a RedrawRequested window event: another redraw is requested, then
\* Update, then Render with the given outcome, then the match on its result
RedrawRequested(outcome) ==
    /\ control_flow = "run"
    /\ ~RedrawPanics(outcome)
    /\ \E r \in {State_render(State_update, outcome)} :
       \E u \in {r.scene} :
       \E m \in {RenderErrorMatch(r.result)} :
       \E d \in {IF m.reconfigure THEN State_resize(Display, size) ELSE Display} :
          /\ world' = u.world
          /\ models' = u.models
          /\ cc' = u.cc
          /\ camera' = u.camera
          /\ camera_uniform' = u.camera_uniform
          /\ camera_buffer' = u.camera_buffer
          /\ size' = d.size
          /\ config' = d.config
          /\ surface' = d.surface
          /\ depth_texture' = d.depth_texture
          /\ control_flow' = IF m.exit THEN "exit" ELSE control_flow
          /\ last' = [ op            |-> "update",
                       helped        |-> cc.is_being_helped,
                       world_helped  |-> world.is_being_helped,
                       first         |-> world.initialized,
                       count_changed |-> u.world.num_instances # world.num_instances,
                       spin          |-> world.is_spin,
                       resize        |-> world.is_resize,
                       recolor       |-> u.recolor,
                       regenerated   |-> u.change_occurred,
                       restored      |-> u.restored,
                       eyecpy        |-> cc.eyecpy,
                       targetcpy     |-> cc.targetcpy,
                       render        |-> r.result,
                       configured    |-> m.reconfigure /\ Reconfigures(size),
                       commands      |-> r.commands ]
    /\ redraw_requested' = TRUE
    /\ frame' = frame + 1
    /\ UNCHANGED <<down, mouse_grabber, cursor_visible, pointer, spin_hist, recolor_hist,
                   cursor_position, resource_vars>>

\* run: a Resized window event; no consumer of State::input handles it
Resized(new_size) ==
    /\ control_flow = "run"
    /\ \E d \in {State_resize(Display, new_size)} :
          /\ size' = d.size
          /\ config' = d.config
          /\ surface' = d.surface
          /\ depth_texture' = d.depth_texture
    /\ last' = [op |-> "event", wheel |-> NoWheel]
    /\ UNCHANGED <<down, mouse_grabber, cursor_visible, cc, camera, camera_uniform,
                   camera_buffer, world, models, frame, pointer, control_flow,
                   spin_hist, recolor_hist, redraw_requested, cursor_position,
                   resource_vars>>

---------------------------------------------------------------------------
(* Spec: help mode and the camera pose *)

\* keys, buttons and pointer deltas delivered under Spec
SpecKeys == {"KeyH", "KeyW"}
SpecButtons == {"Left"}
SpecMotions == {<<300, -900>>}
SpecWheels == {[kind |-> "LineDelta", scroll |-> 1], [kind |-> "PixelDelta", scroll |-> 0]}

KeyStep ==
    \E k \in SpecKeys, p \in BOOLEAN, r \in BOOLEAN : KeyboardInput(k, p, r)
ButtonStep ==
    \E b \in SpecButtons, p \in BOOLEAN : MouseInput(b, p)
MotionStep ==
    /\ pointer < MaxPointer
    /\ \E d \in SpecMotions : MouseMotion(d[1], d[2])
WheelStep ==
    /\ pointer < MaxPointer
    /\ \E d \in SpecWheels : MouseWheel(d)
RedrawStep ==
    /\ frame < MaxFrames
    /\ RedrawRequested("Ok")

Next == KeyStep \/ ButtonStep \/ MotionStep \/ WheelStep \/ RedrawStep

Spec == Init /\ [][Next]_vars

---------------------------------------------------------------------------
(* SpecLook: yaw and pitch under mouse motion and the look keys *)

LookKeys == {"KeyH", "ArrowLeft", "ArrowUp"}
\* mouse deltas in pixels: a large sweep left and down past the pitch limit, a
\* very large sweep right and up past the pitch limit
LookMotions == {<<-2700, 900>>, <<12000, -900>>}

LookKeyStep ==
    \E k \in LookKeys, p \in BOOLEAN, r \in BOOLEAN : KeyboardInput(k, p, r)
LookButtonStep ==
    \E p \in BOOLEAN : MouseInput("Left", p)
LookMotionStep ==
    /\ pointer < MaxLookPointer
    /\ \E d \in LookMotions : MouseMotion(d[1], d[2])
LookRedrawStep ==
    /\ frame < MaxLookFrames
    /\ RedrawRequested("Ok")

NextLook == LookKeyStep \/ LookButtonStep \/ LookMotionStep \/ LookRedrawStep

SpecLook == Init /\ [][NextLook]_vars

---------------------------------------------------------------------------
(* Properties of the camera controller *)

\* whether any of the six movement latches is set
AnyMovementLatch(c) ==
    \/ c.is_forward_pressed \/ c.is_backward_pressed
    \/ c.is_left_pressed \/ c.is_right_pressed
    \/ c.is_up_pressed \/ c.is_down_pressed

\* C1: after every Update executed in help mode the camera's eye is exactly
\* (0,0,2) and its target exactly (0,0,0), whatever pose, yaw, pitch and latches
\* the Update started from.
C1_HelpPoseForced ==
    (last.op = "update" /\ last.helped)
        => (camera.eye = <<0, 0, 2000>> /\ camera.target = <<0, 0, 0>>)

\* a help-mode Update that started from a moved camera, a turned yaw and a held
\* movement key
C1_Witness ==
    /\ last.op = "update" /\ last.helped
    /\ cc.is_forward_pressed
    /\ cc.yaw # CameraController_new.yaw
    /\ cc.eyecpy # CameraController_new.eyecpy

\* the Update that follows a help round trip: help was entered after a
\* navigating frame, and this Update took the restore branch
RoundTripUpdate == last.op = "update" /\ last.restored /\ ~last.first

\* C2 as stated: after a help round trip the first Update leaves the camera's
\* eye and target exactly at the saved pose.
C2_RestoredExactly ==
    RoundTripUpdate => (camera.eye = last.eyecpy /\ camera.target = last.targetcpy)

\* C2, the part about the Update after a round trip: the saved pose is kept, the
\* one-shot marker is cleared, and the camera is the saved pose moved by this
\* frame's navigation step (the saved eye itself when no movement latch is set,
\* the target one forward vector from the eye).
C2_RestoreState ==
    RoundTripUpdate =>
        LET front == Front(cc.yaw, cc.pitch)
            right == Normalize(Cross(front, camera.up))
        IN /\ ~cc.is_h_just_pressed
           /\ cc.eyecpy = last.eyecpy
           /\ cc.targetcpy = last.targetcpy
           /\ camera.eye = MoveEye(cc, last.eyecpy, front, right)
           /\ camera.target = VAdd(camera.eye, front)
           /\ (~AnyMovementLatch(cc) => camera.eye = last.eyecpy)

\* C2, the part about help mode: no step taken while helped changes the saved pose
C2_SavedPoseKept ==
    cc.is_being_helped => (cc'.eyecpy = cc.eyecpy /\ cc'.targetcpy = cc.targetcpy)

\* C2, the one-shot part: while navigating, a cleared marker stays cleared, so
\* no later navigating Update restores again
C2_MarkerOneShot ==
    (~cc.is_being_helped /\ ~cc.is_h_just_pressed /\ ~cc'.is_being_helped)
        => ~cc'.is_h_just_pressed

\* C2 (amended): help round trip.  The first Update after the exit restores the
\* saved pose and then applies that frame's navigation step; it does so once;
\* nothing that happens while helped alters the saved pose.
C2_HelpRoundTrip ==
    /\ []C2_RestoreState
    /\ [][C2_SavedPoseKept]_vars
    /\ [][C2_MarkerOneShot]_vars

\* a round trip that puts back a pose the camera had been flown to
C2_Witness ==
    /\ RoundTripUpdate
    /\ last.eyecpy \notin {CameraController_new.eyecpy, <<0, 0, 2000>>}
    /\ camera.eye = last.eyecpy
    /\ ~AnyMovementLatch(cc)

---------------------------------------------------------------------------
(* Properties of yaw and pitch, under SpecLook *)

\* C3: pitch lies within [-89, 89] after every mouse-motion event and every Update
C3_PitchBounded == -PitchLimit <= cc.pitch /\ cc.pitch <= PitchLimit

\* an Update with the look-up key held that ends at the upper limit
C3_Witness ==
    /\ last.op = "update" /\ ~last.helped
    /\ cc.is_looking_up
    /\ cc.pitch = PitchLimit

\* C4: yaw stays strictly inside (-360, 360)
C4_YawInOpenInterval == -YawWrap < cc.yaw /\ cc.yaw < YawWrap

\* the step is a mouse-motion event that the controller integrates
MotionIntegrated ==
    pointer' = pointer + 1 /\ mouse_grabber.mouse_locked /\ ~cc.is_being_helped

\* the yaw stored after the motion dx, as the wrap law gives it
YawLaw(yaw, dx) ==
    LET sum == yaw + dx * SensitivityUnits
    IN CASE sum > YawWrap  -> cc'.yaw = sum - YawWrap
         [] sum < -YawWrap -> cc'.yaw = sum + YawWrap
         [] OTHER          -> cc'.yaw = sum

C25_YawStep ==
    MotionIntegrated =>
        \E d \in LookMotions :
            /\ YawLaw(cc.yaw, d[1])
            /\ cc'.pitch = ClampPitch(cc.pitch - d[2] * SensitivityUnits)

\* C25: a mouse-motion event integrated by the controller stores yaw + dx *
\* sensitivity, less 360 if that sum is greater than 360, plus 360 if it is
\* less than -360, and the sum itself otherwise, exactly 360 and -360 included
C25_YawWrapLaw == [][C25_YawStep]_vars

\* a motion whose sum was exactly -360 and was stored as it is
C25_Witness ==
    /\ cc.yaw = -YawWrap
    /\ pointer >= 1
    /\ last.op = "event"
    /\ mouse_grabber.mouse_locked /\ ~cc.is_being_helped

---------------------------------------------------------------------------
(* SpecGrid: the count keys and the generated grid *)

GridKeys == {"KeyJ", "KeyK", "KeyH"}

GridKeyStep ==
    \E k \in GridKeys, p \in BOOLEAN, r \in BOOLEAN : KeyboardInput(k, p, r)
GridRedrawStep ==
    /\ frame < MaxGridFrames
    /\ RedrawRequested("Ok")

NextGrid == GridKeyStep \/ GridRedrawStep

SpecGrid == Init /\ [][NextGrid]_vars

---------------------------------------------------------------------------
(* SpecWorld: the count, recolor and resize keys *)

WorldSpecKeys == {"KeyJ", "KeyK", "Digit2", "Digit3", "KeyH"}

WorldKeyStep ==
    \E k \in WorldSpecKeys, p \in BOOLEAN, r \in BOOLEAN : KeyboardInput(k, p, r)
WorldRedrawStep ==
    /\ frame < MaxWorldFrames
    /\ RedrawRequested("Ok")

NextWorld == WorldKeyStep \/ WorldRedrawStep

SpecWorld == Init /\ [][NextWorld]_vars

---------------------------------------------------------------------------
(* SpecSpin: the spin key *)

SpinKeys == {"Digit1", "KeyK", "KeyH"}

SpinKeyStep ==
    \E k \in SpinKeys, p \in BOOLEAN, r \in BOOLEAN : KeyboardInput(k, p, r)
SpinRedrawStep ==
    /\ frame < MaxSpinFrames
    /\ RedrawRequested("Ok")

NextSpin == SpinKeyStep \/ SpinRedrawStep

SpecSpin == Init /\ [][NextSpin]_vars

---------------------------------------------------------------------------
(* SpecModel: a Model driven through its own methods and through the World *)

\* the instances handed to set_instances and add_instances
InstancePool ==
    { HelpInstances[1],
      [position |-> <<-1500, 0, 1500>>, rotation |-> FromAxisAngleZ(OriginExtraAngle), scale |-> ScaleMin] }

RECURSIVE ListsUpTo(_)
\* the instance lists of length at most n over InstancePool
ListsUpTo(n) ==
    IF n = 0 THEN {<<>>}
    ELSE LET shorter == ListsUpTo(n - 1)
         IN shorter \cup {Append(l, x) : l \in shorter, x \in InstancePool}

\* a call of Model::set_instances on model i
SetInstancesCall ==
    /\ control_flow = "run"
    /\ \E i \in 1..Len(models), l \in ListsUpTo(MaxInstances) :
           models' = [models EXCEPT ![i] = Model_set_instances(models[i], l)]
    /\ last' = [op |-> "set_instances"]
    /\ UNCHANGED <<down, mouse_grabber, cursor_visible, cc, camera, camera_uniform,
                   camera_buffer, world, frame, pointer, control_flow, spin_hist, recolor_hist, window_vars, resource_vars>>

\* a call of Model::add_instances on model i
AddInstancesCall ==
    /\ control_flow = "run"
    /\ \E i \in 1..Len(models), x \in InstancePool :
           /\ Len(models[i].instances) <= MaxInstances
           /\ models' = [models EXCEPT ![i] = Model_add_instances(models[i], x)]
    /\ last' = [op |-> "add_instances"]
    /\ UNCHANGED <<down, mouse_grabber, cursor_visible, cc, camera, camera_uniform,
                   camera_buffer, world, frame, pointer, control_flow, spin_hist, recolor_hist, window_vars, resource_vars>>

ModelKeyStep ==
    \E p \in BOOLEAN : KeyboardInput("KeyH", p, FALSE)
ModelRedrawStep ==
    /\ frame < MaxModelFrames
    /\ RedrawRequested("Ok")

NextModel == SetInstancesCall \/ AddInstancesCall \/ ModelKeyStep \/ ModelRedrawStep

SpecModel == Init /\ [][NextModel]_vars

---------------------------------------------------------------------------
(* Properties of the world *)

\* the grid model's instance list
GridList == models[1].instances

\* an Update that ran update_world's body
NavigatingUpdate == last.op = "update" /\ ~last.world_helped

\* C5: num_instances is never negative
C5_CountNeverNegative == world.num_instances >= 0

\* an Update with only the decrease key held that found and left the count at 0
C5_Witness ==
    /\ NavigatingUpdate
    /\ world.is_decrease_pressed /\ ~world.is_increase_pressed
    /\ ~last.count_changed
    /\ world.num_instances = 0

\* the last four spin-key transitions were press, release, press, release
SpinPressedTwice ==
    /\ Len(spin_hist) = 4
    /\ spin_hist[1].pressed /\ ~spin_hist[2].pressed
    /\ spin_hist[3].pressed /\ ~spin_hist[4].pressed

\* C6, first part: press, release, press, release returns is_spin to the value
\* it had before the first press
C6_TwoPressesRestore == SpinPressedTwice => world.is_spin = spin_hist[1].is_spin

\* C6, second part: is_spin flips in exactly the steps in which the spin latch
\* goes from released to pressed; while the key stays held, Updates and
\* repeats flip nothing, and neither does the release
C6_FlipsOnPressOnly ==
    (world'.is_spin # world.is_spin)
        <=> (~world.is_spin_pressed /\ world'.is_spin_pressed)

\* C6: spin toggle debounce
C6_SpinDebounce == []C6_TwoPressesRestore /\ [][C6_FlipsOnPressOnly]_vars

\* two full presses of the spin key, with a spinning Update in between
C6_Witness == SpinPressedTwice /\ world.cur_angle # 0 /\ ~world.is_spin

\* C7 as stated: for N = 0 the list is empty; for N = 1 it is one instance at
\* the origin, turned by cur_angle + 45 degrees, with scale cur_scale
C7_DegenerateAsStated ==
    (NavigatingUpdate /\ last.regenerated) =>
        /\ (world.num_instances = 0 => GridList = <<>>)
        /\ (world.num_instances = 1 =>
               GridList = << [ position |-> <<0, 0, 0>>,
                               rotation |-> FromAxisAngleZ(world.cur_angle + OriginExtraAngle),
                               scale    |-> world.cur_scale ] >>)

\* C7 (amended): for N = 0 the list is empty; for N = 1 it is one instance at
\* (-1.5, 0, -1.5), turned by cur_angle, with scale cur_scale
C7_Degenerate ==
    (NavigatingUpdate /\ last.regenerated) =>
        /\ (world.num_instances = 0 => GridList = <<>>)
        /\ (world.num_instances = 1 =>
               GridList = << [ position |-> <<-1500, 0, -1500>>,
                               rotation |-> FromAxisAngleZ(world.cur_angle),
                               scale    |-> world.cur_scale ] >>)

\* a grid regenerated for N = 1 while spinning
C7_Witness ==
    /\ NavigatingUpdate /\ last.regenerated
    /\ world.num_instances = 1
    /\ world.cur_angle # 0

\* C8: in a regenerated grid the instance at the origin is the only one turned
\* by cur_angle + 45 degrees; every other instance is turned by cur_angle
C8_OnlyOriginTurned ==
    (NavigatingUpdate /\ last.regenerated) =>
        \A i \in 1..Len(GridList) :
            GridList[i].rotation.angle =
                IF GridList[i].position = <<0, 0, 0>>
                THEN world.cur_angle + OriginExtraAngle
                ELSE world.cur_angle

\* C9: a navigating Update regenerates the grid exactly when it is the first
\* navigating frame, or the count changed, or spin or resize is active, or a
\* recolor edge occurred
C9_RegeneratedIff ==
    NavigatingUpdate =>
        (last.regenerated <=>
            (last.first \/ last.count_changed \/ last.spin \/ last.resize \/ last.recolor))

---------------------------------------------------------------------------
(* Properties of Model *)

\* C10: the GPU instance buffer of every model holds the serialization of the
\* model's current instance list
C10_BufferMirrorsList ==
    \A i \in 1..Len(models) :
        models[i].instance_buffer = InstanceData(models[i].instances)

\* a model grown to two or more instances by add_instances
C10_Witness ==
    /\ last.op = "add_instances"
    /\ \E i \in 1..Len(models) : Len(models[i].instances) >= 2

---------------------------------------------------------------------------
(* SpecGrab: the cursor lock and the dispatch of input events *)

GrabKeys == {"Escape", "KeyH", "KeyZ"}
GrabButtons == {"Left", "Right"}

GrabKeyStep ==
    \E k \in GrabKeys, p \in BOOLEAN, r \in BOOLEAN : KeyboardInput(k, p, r)
GrabButtonStep ==
    \E b \in GrabButtons, p \in BOOLEAN : MouseInput(b, p)
GrabMotionStep ==
    /\ pointer < MaxGrabPointer
    /\ MouseMotion(300, -900)
GrabRedrawStep ==
    /\ frame < MaxGrabFrames
    /\ RedrawRequested("Ok")

NextGrab == GrabKeyStep \/ GrabButtonStep \/ GrabMotionStep \/ GrabRedrawStep

SpecGrab == Init /\ [][NextGrab]_vars

---------------------------------------------------------------------------
(* Properties of the cursor lock and of State::input, under SpecGrab *)

\* C11: the hardware cursor is hidden if and only if the mouse grabber is locked
C11_CursorHiddenIffLocked == ~cursor_visible <=> mouse_grabber.mouse_locked

\* the mouse was locked and then unlocked by Escape: an Escape press that did
\* not end the event loop was handled by the grabber, which only handles it
\* when locked
C11_Witness ==
    /\ "Escape" \in down
    /\ control_flow = "run"
    /\ ~mouse_grabber.mouse_locked
    /\ cursor_visible

\* a step that handled a keyboard or mouse-button window event
InputStep == last'.op = "event" /\ pointer' = pointer

\* the step is the delivery of key event (k, p, r) to all three consumers, and
\* the event loop exits exactly when it is an unhandled first press of Escape
KeyDeliveredToAll(k, p, r) ==
    /\ KeyboardDelivers(k, p, r)
    /\ down' = (IF p THEN down \cup {k} ELSE down \ {k})
    /\ mouse_grabber' = MouseGrabber_key(mouse_grabber, cursor_visible, k, p).mg
    /\ cursor_visible' = MouseGrabber_key(mouse_grabber, cursor_visible, k, p).visible
    /\ cc' = CameraController_process_events(cc, k, p, r).cc
    /\ world' = World_process_events(world, k, p, r).world
    /\ (control_flow' = "exit") <=>
          /\ k = "Escape" /\ p /\ ~r
          /\ ~MouseGrabber_key(mouse_grabber, cursor_visible, k, p).handled
          /\ ~CameraController_process_events(cc, k, p, r).handled
          /\ ~World_process_events(world, k, p, r).handled

\* the step is the delivery of mouse-button event (b, p): the grabber acts on
\* it, the camera controller and the world see it and match nothing
ButtonDeliveredToAll(b, p) ==
    /\ down' = down
    /\ mouse_grabber' = MouseGrabber_button(mouse_grabber, cursor_visible, b, p).mg
    /\ cursor_visible' = MouseGrabber_button(mouse_grabber, cursor_visible, b, p).visible
    /\ cc' = cc
    /\ world' = world
    /\ control_flow' = control_flow

\* C14, as a step property
C14_DeliveredStep ==
    InputStep =>
        \/ \E k \in AllKeys, p \in BOOLEAN, r \in BOOLEAN : KeyDeliveredToAll(k, p, r)
        \/ \E b \in GrabButtons, p \in BOOLEAN : ButtonDeliveredToAll(b, p)

\* C14: every window event passed to State::input reaches the mouse grabber,
\* the camera controller and the world whatever any of them returns, and input
\* returns true if and only if at least one of them handled it
C14_DeliveredToAll == [][C14_DeliveredStep]_vars

\* the help key went down with the mouse locked: the camera controller handled
\* the press and the world, consulted after it, acted on it as well
C14_Witness ==
    /\ last.op = "event"
    /\ "KeyH" \in down
    /\ mouse_grabber.mouse_locked
    /\ ~cc.is_being_helped /\ ~world.is_being_helped

---------------------------------------------------------------------------
(* Properties of help mode across the camera controller and the world *)

\* C12: after every Update exactly one of the grid model and the help model
\* is visible: the help model is visible and the grid model hidden if and only
\* if the world is in help mode, and in help mode the help model has exactly
\* one instance
C12_OneModelVisible ==
    last.op = "update" =>
        /\ models[2].visible <=> world.is_being_helped
        /\ models[1].visible <=> ~world.is_being_helped
        /\ world.is_being_helped => Len(models[2].instances) = 1

\* a navigating Update that made the grid visible again after the help model
\* had been set up and shown by an earlier Update
C12_Witness ==
    /\ last.op = "update" /\ ~last.world_helped
    /\ frame >= 3
    /\ models[1].visible /\ ~models[2].visible
    /\ Len(models[2].instances) = 1

\* C13: the help-mode flags of the camera controller and of the world are
\* equal in every state, and their one-shot exit markers are equal after
\* every Update
C13_HelpFlagsInLockstep ==
    /\ cc.is_being_helped = world.is_being_helped
    /\ last.op = "update" => cc.is_h_just_pressed = world.is_help_just_pressed

\* the Update after help mode was left, with the help key still held down
C13_Witness ==
    /\ last.op = "update" /\ last.restored
    /\ "KeyH" \in down
    /\ ~cc.is_being_helped /\ ~world.is_being_helped
    /\ ~cc.is_h_just_pressed /\ ~world.is_help_just_pressed
    /\ frame >= 2

---------------------------------------------------------------------------
(* SpecMaterial: change_material on models of one to MaxMaterials materials *)

\* State::new with a grid model of n materials whose mesh 0 starts on material i
InitMaterial ==
    /\ down = {}
    /\ mouse_grabber = [mouse_locked |-> FALSE]
    /\ cursor_visible = TRUE
    /\ cc = CameraController_new
    /\ State_new_camera
    /\ world = World_new
    /\ \E n \in 1..MaxMaterials, i \in 0..(MaxMaterials - 1) :
          /\ i < n
          /\ models = << Model_new(<<[material |-> i]>>, n),
                         Model_new(<<[material |-> 0]>>, n) >>
    /\ frame = 0
    /\ pointer = 0
    /\ control_flow = "run"
    /\ spin_hist = <<>>
    /\ recolor_hist = [state |-> "none", material |-> 0, nav |-> FALSE, helped |-> FALSE]
    /\ State_new_window
    /\ World_new_loaded
    /\ last = [op |-> "new"]

\* a call of Model::change_material on the grid model; last counts the calls
\* made in a row and keeps the index the run started from
ChangeMaterialCall ==
    /\ control_flow = "run"
    /\ last.op = "change_material" => last.calls < MaxMaterialCalls
    /\ models' = [models EXCEPT ![1] = Model_change_material(models[1])]
    /\ last' = [ op    |-> "change_material",
                 start |-> IF last.op = "change_material"
                           THEN last.start ELSE models[1].meshes[1].material,
                 calls |-> IF last.op = "change_material" THEN last.calls + 1 ELSE 1 ]
    /\ UNCHANGED <<down, mouse_grabber, cursor_visible, cc, camera, camera_uniform,
                   camera_buffer, world, frame, pointer, control_flow, spin_hist,
                   recolor_hist, window_vars, resource_vars>>

MaterialKeyStep ==
    \E k \in {"Digit2", "KeyH"}, p \in BOOLEAN : KeyboardInput(k, p, FALSE)
MaterialRedrawStep ==
    /\ frame < MaxMaterialFrames
    /\ RedrawRequested("Ok")

NextMaterial == ChangeMaterialCall \/ MaterialKeyStep \/ MaterialRedrawStep

SpecMaterial == InitMaterial /\ [][NextMaterial]_vars

\* the material index of the grid model's mesh 0
GridMaterial == models[1].meshes[1].material

\* C15: len(materials) calls of change_material in a row return mesh 0's
\* material index to the value it started from, and every index on the way is
\* within [0, len(materials))
C15_MaterialCycle ==
    /\ \A i \in 1..Len(models) :
           models[i].meshes[1].material \in 0..(models[i].materials - 1)
    /\ (last.op = "change_material" /\ last.calls = models[1].materials)
           => GridMaterial = last.start

\* a full cycle over three or more materials that started away from index 0
C15_Witness ==
    /\ last.op = "change_material"
    /\ models[1].materials >= 3
    /\ last.calls = models[1].materials
    /\ last.start > 0
    /\ GridMaterial = last.start

---------------------------------------------------------------------------
(* SpecRecolor: the recolor key *)

RecolorKeys == {"Digit2", "KeyH"}

RecolorKeyStep ==
    \E k \in RecolorKeys, p \in BOOLEAN, r \in BOOLEAN : KeyboardInput(k, p, r)
RecolorRedrawStep ==
    /\ frame < MaxRecolorFrames
    /\ RedrawRequested("Ok")

NextRecolor == RecolorKeyStep \/ RecolorRedrawStep

SpecRecolor == Init /\ [][NextRecolor]_vars

\* C16: each press of the recolor key advances the material index of the grid
\* model's mesh 0 exactly once, modulo the material count: once a press made
\* while navigating has been released (help mode not entered since), the index
\* is one past the index the press found, whatever number of Updates ran while
\* the key was held
C16_OncePerPress ==
    (recolor_hist.state = "released" /\ recolor_hist.nav)
        => GridMaterial = (recolor_hist.material + 1) % models[1].materials

---------------------------------------------------------------------------
(* SpecResize: the resize key and the scale animation *)

ResizeKeys == {"Digit3", "KeyH"}

\* presses and releases only: a repeat changes nothing the scale depends on
ResizeKeyStep ==
    \E k \in ResizeKeys, p \in BOOLEAN : KeyboardInput(k, p, FALSE)
ResizeRedrawStep ==
    /\ frame < MaxResizeFrames
    /\ RedrawRequested("Ok")

NextResize == ResizeKeyStep \/ ResizeRedrawStep

SpecResize == Init /\ [][NextResize]_vars

\* C17: cur_scale lies within [0.5, 1.0] in every reachable state
C17_ScaleWithinBounds ==
    ScaleMin <= world.cur_scale /\ world.cur_scale <= ScaleMax

---------------------------------------------------------------------------
(* SpecAngle: the spin step of update_world for small and large counts *)

\* values of num_instances the spin step is applied with
SpinCounts == {0, 5, 200, 1000, 72000}

\* the world with spin active and num_instances drawn from SpinCounts
InitAngle ==
    /\ down = {}
    /\ mouse_grabber = [mouse_locked |-> FALSE]
    /\ cursor_visible = TRUE
    /\ cc = CameraController_new
    /\ State_new_camera
    /\ \E n \in SpinCounts :
          world = [World_new EXCEPT !.num_instances = n, !.is_spin = TRUE]
    /\ models = World_new_models
    /\ frame = 0
    /\ pointer = 0
    /\ control_flow = "run"
    /\ spin_hist = <<>>
    /\ recolor_hist = [state |-> "none", material |-> 0, nav |-> FALSE, helped |-> FALSE]
    /\ State_new_window
    /\ World_new_loaded
    /\ last = [op |-> "new"]

\* the spin step of update_world, on its own
SpinCall ==
    /\ frame < MaxSpinCalls
    /\ world.is_spin
    /\ world' = [world EXCEPT !.cur_angle = SpinAngle(world.cur_angle, world.num_instances)]
    /\ frame' = frame + 1
    /\ last' = [op |-> "spin"]
    /\ UNCHANGED <<down, mouse_grabber, cursor_visible, cc, camera, camera_uniform,
                   camera_buffer, models, pointer, control_flow, spin_hist,
                   recolor_hist, window_vars, resource_vars>>

NextAngle == SpinCall

SpecAngle == InitAngle /\ [][NextAngle]_vars

\* C18: cur_angle lies in [0, 360) in every reachable state, for every value
\* of num_instances
C18_AngleInRange == 0 <= world.cur_angle /\ world.cur_angle < FullTurn

---------------------------------------------------------------------------
(* Properties of the count keys, under SpecGrid *)

\* the step runs an Update
UpdateRan == frame' = frame + 1

\* the step changes num_instances as the held count key says: up by one with
\* only the increase key held, down by one with only the decrease key held and
\* a positive count
CountFollowsKeys ==
    /\ (world.is_increase_pressed /\ ~world.is_decrease_pressed)
          => world'.num_instances = world.num_instances + 1
    /\ (world.is_decrease_pressed /\ ~world.is_increase_pressed
            /\ world.num_instances > 0)
          => world'.num_instances = world.num_instances - 1

\* C19 as stated: in every Update frame the count follows the held count key
C19_EveryFrameAsStated == [][UpdateRan => CountFollowsKeys]_vars

\* C19 (amended): in every Update frame run while navigating the count follows
\* the held count key, at any count; an Update run in help mode leaves the
\* count alone
C19_LevelTriggered ==
    [][UpdateRan => /\ ~world.is_being_helped => CountFollowsKeys
                    /\ world.is_being_helped =>
                           world'.num_instances = world.num_instances]_vars

\* the increase key held over several navigating frames
C19_Witness ==
    /\ NavigatingUpdate
    /\ world.is_increase_pressed /\ ~world.is_decrease_pressed
    /\ last.count_changed
    /\ world.num_instances >= InitialNumInstances + 3

---------------------------------------------------------------------------
(* SpecRender: redraws with every outcome of Render *)

RenderKeys == {"KeyH", "KeyW"}

RenderKeyStep ==
    \E k \in RenderKeys, p \in BOOLEAN, r \in BOOLEAN : KeyboardInput(k, p, r)
RenderButtonStep ==
    \E p \in BOOLEAN : MouseInput("Left", p)
RenderRedrawStep ==
    /\ frame < MaxRenderFrames
    /\ \E o \in RenderOutcomes : RedrawRequested(o)
\* the sizes the window reports: minimised, the initial size, a larger one
RenderSizes == {[width |-> 0, height |-> 0], InitialSize, [width |-> 1024, height |-> 768]}
RenderResizedStep ==
    \E z \in RenderSizes : Resized(z)

NextRender == RenderKeyStep \/ RenderButtonStep \/ RenderRedrawStep \/ RenderResizedStep

SpecRender == Init /\ [][NextRender]_vars

\* the step handles one redraw: one Update ran, one Render followed it and
\* left the scene as Update made it
OneUpdateThenRender ==
    /\ frame' = frame + 1
    /\ last'.op = "update"
    /\ last'.render \in RenderOutcomes
    /\ world' = State_update.world
    /\ models' = State_update.models
    /\ cc' = State_update.cc
    /\ camera' = State_update.camera
    /\ mouse_grabber' = mouse_grabber

\* C20, as a step property: a step runs an Update or a Render only as a whole
\* redraw, and an input event runs neither
C20_RedrawStep ==
    /\ (frame' # frame \/ last'.op = "update") => OneUpdateThenRender
    /\ last'.op = "event" => frame' = frame

\* C20: for every redraw exactly one Update runs, before the single Render of
\* that frame and with no input event in between; Render changes no scene state
C20_UpdateThenRender == [][C20_RedrawStep]_vars

\* a navigating redraw with a movement key held whose Render timed out
C20_Witness ==
    /\ last.op = "update" /\ ~last.helped
    /\ last.render = "Timeout"
    /\ cc.is_forward_pressed
    /\ frame >= 2

---------------------------------------------------------------------------
(* Properties of the render error handling *)

\* the step is a redraw whose Render returned a transient error
TransientRedraw == last'.op = "update" /\ last'.render \in {"Lost", "Outdated", "Timeout"}

\* the scene the step leaves is the one its Update produced
UpdateKept ==
    /\ world' = State_update.world
    /\ models' = State_update.models
    /\ cc' = State_update.cc
    /\ camera' = State_update.camera
    /\ camera_buffer' = State_update.camera_buffer

\* the surface is configured again, with the size the program holds
ReconfiguredWithCurrentSize ==
    /\ last'.configured
    /\ size' = size
    /\ config' = size
    /\ surface' = [configured |-> TRUE, width |-> size.width, height |-> size.height]
    /\ depth_texture' = size

C21_TransientStep ==
    TransientRedraw =>
        /\ control_flow' = "run"
        /\ redraw_requested'
        /\ UpdateKept
        /\ last'.commands = <<>>
        /\ IF last'.render = "Timeout"
           THEN ~last'.configured /\ UNCHANGED <<size, config, surface, depth_texture>>
           ELSE ReconfiguredWithCurrentSize

\* C21: a redraw whose Render fails with a lost or outdated surface
\* reconfigures the surface with the size the program holds, one whose Render
\* times out touches nothing (the frame is skipped); in both cases nothing is
\* drawn, the loop keeps running with another redraw requested, and the scene
\* is the one that frame's Update produced
C21_TransientRenderError == [][C21_TransientStep]_vars

\* a lost surface met after the window was resized and then minimised, in a
\* navigating frame that moved the camera
C21_Witness ==
    /\ last.op = "update" /\ last.render = "Lost" /\ last.configured
    /\ ~last.helped /\ cc.is_forward_pressed
    /\ size = [width |-> 1024, height |-> 768]
    /\ surface.width = 1024
    /\ control_flow = "run"

C22_ExitStep ==
    last'.op = "update" =>
        /\ last'.render \in RenderOutcomes
        /\ (control_flow' = "exit" <=> last'.render = "OutOfMemory")

\* C22: a redraw asks the event loop to exit exactly when its Render returned
\* OutOfMemory: not on success, not on a lost or outdated surface, not on a
\* timeout
C22_OutOfMemoryFatal == [][C22_ExitStep]_vars

\* the loop was asked to exit by a redraw, after earlier frames that met a
\* transient error and went on
C22_Witness ==
    /\ control_flow = "exit"
    /\ last.op = "update" /\ last.render = "OutOfMemory"
    /\ frame >= 2
    /\ surface.configured

---------------------------------------------------------------------------
(* SpecStartup: State::new waiting for World::new, then the event loop *)

\* run has called State::new, which has built the camera and its controller
\* and awaits World::new: the resource list is not read yet, no model exists
InitStartup ==
    /\ down = {}
    /\ mouse_grabber = [mouse_locked |-> FALSE]
    /\ cursor_visible = TRUE
    /\ cc = CameraController_new
    /\ State_new_camera
    /\ world = World_new
    /\ models = <<>>
    /\ frame = 0
    /\ pointer = 0
    /\ control_flow = "new"
    /\ spin_hist = <<>>
    /\ recolor_hist = [state |-> "none", material |-> 0, nav |-> FALSE, helped |-> FALSE]
    /\ State_new_window
    /\ loads = [i \in 1..Len(World_new_models) |-> "waiting"]
    /\ files = ResourceDir
    /\ last = [op |-> "start"]

\* what the event loop's handlers leave alone during startup
StartupUnchanged ==
    UNCHANGED <<down, mouse_grabber, cursor_visible, cc, camera, camera_uniform,
                camera_buffer, world, frame, pointer, spin_hist, recolor_hist,
                window_vars, files>>

\* World::new: load_string("resources.txt").await.unwrap(), then one
\* load_model future per line
ReadResourceList(ok) ==
    /\ control_flow = "new"
    /\ \A i \in DOMAIN loads : loads[i] = "waiting"
    /\ loads' = IF ok THEN [i \in DOMAIN loads |-> "pending"] ELSE loads
    /\ control_flow' = IF ok THEN control_flow ELSE "panicked"
    /\ last' = [op |-> "load"]
    /\ UNCHANGED models
    /\ StartupUnchanged

\* load_model on the file named on one line of resources.txt (the line number
\* stands for the file name): every mesh of the model carries that name
load_model(line) ==
    Model_new(<<[name |-> line, material |-> 0]>>, NumMaterials)

\* the Err a load_model future resolves to
LoadError == [error |-> TRUE]

\* one of the concurrent load_model futures completes, with a model or an
\* error: the FuturesUnordered stream yields its output at once and
\* collect::<Vec<_>>() pushes it behind the outputs that came before
LoadCompletes(i, ok) ==
    /\ control_flow = "new"
    /\ loads[i] = "pending"
    /\ loads' = [loads EXCEPT ![i] = IF ok THEN "loaded" ELSE "failed"]
    /\ models' = Append(models, IF ok THEN load_model(i) ELSE LoadError)
    /\ last' = [op |-> "load"]
    /\ UNCHANGED control_flow
    /\ StartupUnchanged

\* variant of World_new_result that drops the loads that failed
World_new_result_SkipFailed(ls) == "run"

\* World::new: collect::<Result<Vec<_>, _>>().unwrap() on the finished loads
World_new_result(ls) ==
    IF \E i \in DOMAIN ls : ls[i] = "failed" THEN "panicked" ELSE "run"

\* every future of the FuturesUnordered has finished: World::new returns the
\* world or panics; State::new returns and run enters the event loop
WorldNewReturns ==
    /\ control_flow = "new"
    /\ \A i \in DOMAIN loads : loads[i] \in {"loaded", "failed"}
    /\ control_flow' = World_new_result(loads)
    /\ models' = IF World_new_result(loads) = "run" THEN models ELSE <<>>
    /\ last' = [op |-> "new"]
    /\ UNCHANGED loads
    /\ StartupUnchanged

StartupKeys == {"KeyH", "KeyW"}

ReadListStep == \E ok \in BOOLEAN : ReadResourceList(ok)
LoadStep == \E i \in DOMAIN loads, ok \in BOOLEAN : LoadCompletes(i, ok)
StartupKeyStep ==
    \E k \in StartupKeys, p \in BOOLEAN, r \in BOOLEAN : KeyboardInput(k, p, r)
StartupButtonStep ==
    \E p \in BOOLEAN : MouseInput("Left", p)
StartupRedrawStep ==
    /\ frame < MaxStartupFrames
    /\ \E o \in RenderOutcomes : RedrawRequested(o)

NextStartup ==
    ReadListStep \/ LoadStep \/ WorldNewReturns \/ StartupKeyStep
    \/ StartupButtonStep \/ StartupRedrawStep

SpecStartup == InitStartup /\ [][NextStartup]_vars

\* an input event, an Update or a Render has been processed
LoopEntered ==
    \/ control_flow \in {"run", "exit"}
    \/ frame > 0
    \/ last.op \in {"event", "update"}
    \/ down # {}

\* C23: whenever an input event, an Update or a Render has been processed,
\* every startup load has completed with a model, in whichever order the loads
\* completed; once a load has failed the loop is not entered
C23_LoopAfterLoads ==
    /\ LoopEntered => \A i \in DOMAIN loads : loads[i] = "loaded"
    /\ (\E i \in DOMAIN loads : loads[i] = "failed") => control_flow \in {"new", "panicked"}
    /\ control_flow = "panicked" => ~LoopEntered

\* the loop runs a navigating frame after both loads completed
C23_Witness ==
    /\ \A i \in DOMAIN loads : loads[i] = "loaded"
    /\ last.op = "update" /\ ~last.helped
    /\ frame = 2
    /\ Len(models) = 2

\* C36: once World::new has returned, the model at index i of the world's
\* model list (counted from 0) is the model loaded from line i of the resource
\* list, in whichever order the startup loads completed: index 0 is the grid
\* model and index 1 the help-overlay model
C36_ModelsInListOrder ==
    control_flow \in {"run", "exit"} =>
        /\ Len(models) = Len(loads)
        /\ \A i \in DOMAIN models : \A k \in DOMAIN models[i].meshes :
               models[i].meshes[k].name = i

---------------------------------------------------------------------------
(* SpecTotal: the event loop over worlds of any number of models *)

\* the models load_model can return: no mesh or one mesh on material 0
\* (material_id.unwrap_or(0)), and any number of materials from none on
TotalModelPool ==
    { Model_new(meshes, n) : meshes \in {<<>>, <<[material |-> 0]>>},
                             n \in 0..MaxTotalMaterials }

RECURSIVE ModelListsUpTo(_)
\* the model lists of length 1..n over TotalModelPool: split("\n") yields at
\* least one line, so a world that loaded has at least one model
ModelListsUpTo(n) ==
    IF n = 1 THEN {<<m>> : m \in TotalModelPool}
    ELSE LET shorter == ModelListsUpTo(n - 1)
         IN shorter \cup {Append(l, m) : l \in shorter, m \in TotalModelPool}

\* State::new after World::new loaded any resource list without an error
InitTotal ==
    /\ down = {}
    /\ mouse_grabber = [mouse_locked |-> FALSE]
    /\ cursor_visible = TRUE
    /\ cc = CameraController_new
    /\ State_new_camera
    /\ world = World_new
    /\ models \in ModelListsUpTo(MaxTotalModels)
    /\ frame = 0
    /\ pointer = 0
    /\ control_flow = "run"
    /\ spin_hist = <<>>
    /\ recolor_hist = [state |-> "none", material |-> 0, nav |-> FALSE, helped |-> FALSE]
    /\ State_new_window
    /\ loads = [i \in 1..Len(models) |-> "loaded"]
    /\ files = ResourceDir
    /\ last = [op |-> "new"]

TotalKeys == {"KeyH", "Digit2"}

TotalKeyStep ==
    \E k \in TotalKeys, p \in BOOLEAN : KeyboardInput(k, p, FALSE)
TotalRedrawStep ==
    /\ frame < MaxTotalFrames
    /\ \E o \in {"Ok", "Timeout"} : RedrawRequested(o)
TotalPanicStep ==
    \E o \in {"Ok", "Timeout"} : RedrawRequestedPanics(o)

NextTotal == TotalKeyStep \/ TotalRedrawStep \/ TotalPanicStep

SpecTotal == InitTotal /\ [][NextTotal]_vars

\* C38: every input-event handler, every Update and every draw traversal
\* completes without failure, whatever models were loaded (any number of them,
\* any number of materials in each) and whatever N is: no handler indexes a
\* model or a material out of range
C38_HandlersTotal == control_flow # "panicked"

---------------------------------------------------------------------------
(* SpecDraw: the draw traversal over models of every shape *)

RECURSIVE MeshListsUpTo(_)
\* the mesh lists of length 1..n, each mesh on a material the model has
MeshListsUpTo(n) ==
    IF n = 1 THEN {<<[material |-> k]>> : k \in 0..(NumMaterials - 1)}
    ELSE LET shorter == MeshListsUpTo(n - 1)
         IN shorter \cup {Append(l, [material |-> k]) :
                              l \in shorter, k \in 0..(NumMaterials - 1)}

\* the instance lists drawn: none, one, two instances
DrawInstanceLists ==
    {l \in ListsUpTo(MaxInstances) : \A i \in 1..Len(l) : l[i] = HelpInstances[1]}

\* the models a world may hold: any mesh list, shown or hidden, any instance list
DrawModelPool ==
    { [Model_set_instances(Model_new(meshes, NumMaterials), l) EXCEPT !.visible = v] :
          meshes \in MeshListsUpTo(MaxMeshes), l \in DrawInstanceLists, v \in BOOLEAN }

\* the models of DrawModelPool that have a single mesh
SingleMeshPool == {m \in DrawModelPool : Len(m.meshes) = 1}

\* State::new with the grid model drawn from DrawModelPool and the help model
\* from SingleMeshPool
InitDraw ==
    /\ down = {}
    /\ mouse_grabber = [mouse_locked |-> FALSE]
    /\ cursor_visible = TRUE
    /\ cc = CameraController_new
    /\ State_new_camera
    /\ world = World_new
    /\ \E m1 \in DrawModelPool, m2 \in SingleMeshPool : models = <<m1, m2>>
    /\ frame = 0
    /\ pointer = 0
    /\ control_flow = "run"
    /\ spin_hist = <<>>
    /\ recolor_hist = [state |-> "none", material |-> 0, nav |-> FALSE, helped |-> FALSE]
    /\ State_new_window
    /\ World_new_loaded
    /\ last = [op |-> "new"]

\* a call of draw_world on the world as it is; last keeps the commands
DrawWorldCall ==
    /\ control_flow = "run"
    /\ last.op # "draw_world"
    /\ last' = [ op |-> "draw_world",
                 commands |-> DrawWorld_draw_world(models, CameraBindGroup) ]
    /\ UNCHANGED <<down, mouse_grabber, cursor_visible, cc, camera, camera_uniform,
                   camera_buffer, world, models, frame, pointer, control_flow,
                   spin_hist, recolor_hist, window_vars, resource_vars>>

DrawKeyStep ==
    \E p \in BOOLEAN : KeyboardInput("KeyH", p, FALSE)
DrawRedrawStep ==
    /\ frame < MaxDrawFrames
    /\ RedrawRequested("Ok")

NextDraw == DrawWorldCall \/ DrawKeyStep \/ DrawRedrawStep

SpecDraw == InitDraw /\ [][NextDraw]_vars

\* the commands of the last draw traversal, and whether there was one
Drawn == last.op = "draw_world" \/ (last.op = "update" /\ last.render = "Ok")

\* the bind group bound at index idx when command k of c executes
BoundGroup(c, k, idx) ==
    LET js == {j \in 1..(k - 1) : c[j].cmd = "set_bind_group" /\ c[j].index = idx}
    IN IF js = {} THEN Resource("none", 0, 0)
       ELSE c[CHOOSE j \in js : \A j2 \in js : j2 <= j].group

\* the vertex buffer bound at a slot when command k of c executes
BoundVertexBuffer(c, k, slot) ==
    LET js == {j \in 1..(k - 1) : c[j].cmd = "set_vertex_buffer" /\ c[j].slot = slot}
    IN IF js = {} THEN Resource("none", 0, 0)
       ELSE c[CHOOSE j \in js : \A j2 \in js : j2 <= j].buffer

\* the index buffer bound when command k of c executes
BoundIndexBuffer(c, k) ==
    LET js == {j \in 1..(k - 1) : c[j].cmd = "set_index_buffer"}
    IN IF js = {} THEN Resource("none", 0, 0)
       ELSE c[CHOOSE j \in js : \A j2 \in js : j2 <= j].buffer

\* the indexed draws of c that draw mesh j of model i
DrawsOf(c, i, j) ==
    {k \in 1..Len(c) : /\ c[k].cmd = "draw_indexed"
                       /\ BoundVertexBuffer(c, k, 0) = Resource("vertex_buffer", i, j)}

\* the resource a command names, if it names one
Named(cmd) ==
    IF cmd.cmd = "set_bind_group" THEN cmd.group
    ELSE IF cmd.cmd = "draw_indexed" THEN Resource("none", 0, 0)
    ELSE cmd.buffer

RECURSIVE VisibleMeshes(_, _)
\* the number of meshes of the visible models among the first i
VisibleMeshes(ms, i) ==
    IF i = 0 THEN 0
    ELSE VisibleMeshes(ms, i - 1) + (IF ms[i].visible THEN Len(ms[i].meshes) ELSE 0)

\* C24: in the commands of a draw traversal no command names a resource of an
\* invisible model; each mesh of a visible model has exactly one indexed draw,
\* issued with that mesh's index buffer, the model's instance buffer, the
\* material at the mesh's material index and the camera bind group bound, over
\* the instance range 0..len(instances); and there is no other draw
C24_DrawTraversal ==
    Drawn =>
      LET c == last.commands
      IN /\ \A i \in 1..Len(models) :
               IF models[i].visible
               THEN \A j \in 1..Len(models[i].meshes) :
                      /\ Cardinality(DrawsOf(c, i, j)) = 1
                      /\ \A k \in DrawsOf(c, i, j) :
                            /\ BoundGroup(c, k, 0) =
                                   Resource("material", i, models[i].meshes[j].material)
                            /\ BoundGroup(c, k, 1) = CameraBindGroup
                            /\ BoundIndexBuffer(c, k) = Resource("index_buffer", i, j)
                            /\ BoundVertexBuffer(c, k, 1) = Resource("instance_buffer", i, 0)
                            /\ c[k].instances = <<0, Len(models[i].instances)>>
               ELSE \A k \in 1..Len(c) : Named(c[k]).owner # i
         /\ Cardinality({k \in 1..Len(c) : c[k].cmd = "draw_indexed"})
               = VisibleMeshes(models, Len(models))

\* a traversal over a visible model of two meshes on different materials with
\* two instances and a hidden model
C24_Witness ==
    /\ last.op = "draw_world"
    /\ models[1].visible
    /\ ~models[2].visible
    /\ Len(models[1].meshes) = 2
    /\ models[1].meshes[1].material # models[1].meshes[2].material
    /\ Len(models[1].instances) = 2
    /\ Len(last.commands) = 12

---------------------------------------------------------------------------
(* Properties of the help key in the camera controller, under Spec *)

\* the step delivers a non-repeat press, or a release, of the help key
HelpKeyPressed == "KeyH" \notin down /\ "KeyH" \in down'
HelpKeyReleased == "KeyH" \in down /\ "KeyH" \notin down'

\* a release of the help key changes neither the mode nor the marker
HelpReleaseKeeps ==
    HelpKeyReleased =>
        /\ cc'.is_being_helped = cc.is_being_helped
        /\ cc'.is_h_just_pressed = cc.is_h_just_pressed

C30_AsStatedStep ==
    /\ (HelpKeyPressed /\ cc.is_being_helped) =>
          ~cc'.is_being_helped /\ cc'.is_h_just_pressed = cc.is_h_just_pressed
    /\ (HelpKeyPressed /\ ~cc.is_being_helped) =>
          cc'.is_being_helped /\ cc'.is_h_just_pressed
    /\ HelpReleaseKeeps

\* C30 as stated: a non-repeat press while helped switches to navigating and
\* does not set the marker; a non-repeat press while navigating switches to
\* helped and sets the marker; a release changes neither
C30_MarkerOnEnter == [][C30_AsStatedStep]_vars

C30_AmendedStep ==
    /\ (HelpKeyPressed /\ cc.is_being_helped) =>
          ~cc'.is_being_helped /\ cc'.is_h_just_pressed
    /\ (HelpKeyPressed /\ ~cc.is_being_helped) =>
          cc'.is_being_helped /\ cc'.is_h_just_pressed = cc.is_h_just_pressed
    /\ HelpReleaseKeeps

\* C30 as amended: a non-repeat press while helped switches to navigating and
\* sets the marker; a non-repeat press while navigating switches to helped
\* and leaves the marker as it was; a release changes neither
C30_HelpKeyEdges == [][C30_AmendedStep]_vars

\* help was left by a press that set the marker, after an earlier round trip
\* whose marker an Update had consumed
C30_Witness ==
    /\ ~cc.is_being_helped /\ cc.is_h_just_pressed
    /\ "KeyH" \in down
    /\ last.op = "event"
    /\ frame >= 1
    /\ cc.eyecpy # CameraController_new.eyecpy

---------------------------------------------------------------------------
(* Properties of the saved pose, under Spec *)

\* the saved eye and target equal the camera's eye and target
SnapshotFresh == cc.eyecpy = camera.eye /\ cc.targetcpy = camera.target

\* C29: at the end of every Update executed while navigating, and so at the
\* moment a later help-key press enters help mode, the saved eye and target
\* equal the camera's current eye and target
C29_SnapshotFreshest ==
    /\ (last.op = "update" /\ ~last.helped) => SnapshotFresh
    /\ (last.op = "event" /\ cc.is_being_helped /\ "KeyH" \in down /\ frame > 0
            /\ camera # HelpPose(camera))
          => SnapshotFresh

---------------------------------------------------------------------------
(* SpecCamera: the view-projection matrix of cameras of every shape *)

\* camera.rs tests: the camera of test_build_view_projection_matrix
FixtureCamera ==
    [ eye    |-> <<0, 1000, 2000>>,
      target |-> <<0, 0, 0>>,
      up     |-> <<0, One, 0>>,
      aspect |-> One,
      fovy   |-> 900,
      znear  |-> 1000,
      zfar   |-> 100000 ]

\* camera.rs tests: the matrix the test expects, column by column, each
\* entry rounded to thousandths
ReferenceMatrix ==
    Matrix4(<<1000, 0, 0, 0>>,
            <<0, 894, -228, -675>>,
            <<0, -447, -456, -1351>>,
            <<0, 0, 131, 2367>>)

\* the cameras handed to build_view_projection_matrix
CameraPool ==
    { [FixtureCamera EXCEPT !.eye = e, !.target = t, !.aspect = a, !.fovy = f, !.znear = n] :
          e \in {<<0, 1000, 2000>>, <<0, 0, 2000>>, <<3000, 1000, -2000>>, <<-1000, 2000, 500>>},
          t \in {<<0, 0, 0>>, <<1000, 0, 0>>},
          a \in {One, Camera_new.aspect},
          f \in {900, Camera_new.fovy},
          n \in {1000, Camera_new.znear} }

\* a camera of CameraPool and a new camera uniform, as the tests build them
InitCamera ==
    /\ down = {}
    /\ mouse_grabber = [mouse_locked |-> FALSE]
    /\ cursor_visible = TRUE
    /\ cc = CameraController_new
    /\ camera \in CameraPool
    /\ camera_uniform = CameraUniform_new
    /\ camera_buffer = CastSlice(CameraUniform_new)
    /\ world = World_new
    /\ models = World_new_models
    /\ frame = 0
    /\ pointer = 0
    /\ control_flow = "run"
    /\ spin_hist = <<>>
    /\ recolor_hist = [state |-> "none", material |-> 0, nav |-> FALSE, helped |-> FALSE]
    /\ State_new_window
    /\ World_new_loaded
    /\ last = [op |-> "new"]

\* what a call on the camera or its uniform leaves alone
CameraCallUnchanged ==
    UNCHANGED <<down, mouse_grabber, cursor_visible, cc, camera_buffer, world, models,
                frame, pointer, control_flow, spin_hist, recolor_hist, window_vars,
                resource_vars>>

\* a call of Camera::build_view_projection_matrix(&self); last keeps the
\* camera as it was before the call and the matrix returned
BuildCall ==
    /\ last' = [ op     |-> "build_view_projection_matrix",
                 camera |-> camera,
                 matrix |-> Camera_build_view_projection_matrix(camera) ]
    /\ UNCHANGED <<camera, camera_uniform>>
    /\ CameraCallUnchanged

\* a call of CameraUniform::update_view_proj(&mut self, &camera)
UpdateViewProjCall ==
    /\ camera_uniform' = CameraUniform_update_view_proj(camera_uniform, camera)
    /\ last' = [op |-> "update_view_proj"]
    /\ UNCHANGED camera
    /\ CameraCallUnchanged

NextCamera == BuildCall \/ UpdateViewProjCall

SpecCamera == InitCamera /\ [][NextCamera]_vars

\* the columns of a matrix, in order
Columns(m) == <<m.x, m.y, m.z, m.w>>

\* two matrices agree entry by entry within three thousandths
MatrixClose(a, b) ==
    \A c \in 1..4, r \in 1..4 : Abs(Columns(a)[c][r] - Columns(b)[c][r]) <= 3

\* C27: the matrix build_view_projection_matrix returns is the product
\* OPENGL_TO_WGPU_MATRIX * perspective * look_at_rh of the camera's fields,
\* the call leaves the camera as it was, and for the fixture camera the matrix
\* is the test's reference matrix (to the precision of the model)
C27_ViewProjection ==
    last.op = "build_view_projection_matrix" =>
        /\ last.matrix =
              Mat4Mul(Mat4Mul(OPENGL_TO_WGPU_MATRIX,
                              Perspective(camera.fovy, camera.aspect, camera.znear, camera.zfar)),
                      LookAtRh(camera.eye, camera.target, camera.up))
        /\ camera = last.camera
        /\ camera = FixtureCamera => MatrixClose(last.matrix, ReferenceMatrix)

\* the matrix was built for the fixture camera
C27_Witness ==
    /\ last.op = "build_view_projection_matrix"
    /\ camera = FixtureCamera
    /\ last.matrix.w[4] > 2 * One

---------------------------------------------------------------------------
(* Properties of the camera uniform, under Spec *)

\* C26: after every redraw the camera uniform holds the matrix
\* build_view_projection_matrix returns for the camera as it is now, and the
\* camera buffer on the GPU holds that matrix's sixteen entries, column by
\* column: what Render draws with is never stale with respect to the pose
C26_UniformFresh ==
    last.op = "update" =>
        /\ Matrix4_from_array(camera_uniform.view_proj)
              = Camera_build_view_projection_matrix(camera)
        /\ \A c \in 1..4, r \in 1..4 :
              camera_buffer[4 * (c - 1) + r]
                = Columns(Camera_build_view_projection_matrix(camera))[c][r]

\* a navigating redraw after a scroll moved the eye since the last redraw
C26_Witness ==
    /\ last.op = "update" /\ ~last.helped
    /\ frame >= 2
    /\ pointer >= 1
    /\ camera.eye # last.eyecpy
    /\ camera.eye # HelpPose(camera).eye
    /\ camera_buffer # CastSlice(CameraUniform_update_view_proj(CameraUniform_new, Camera_new))

---------------------------------------------------------------------------
(* resources: load_string and load_binary over a resource directory *)

\* a UTF-8 continuation byte
IsContinuation(b) == 128 <= b /\ b <= 191

\* the length of the UTF-8 sequence that starts bs, 0 if none does
Utf8SequenceLen(bs) ==
    LET b == bs[1]
        n == Len(bs)
    IN CASE b < 128 -> 1
         [] 194 <= b /\ b <= 223 ->
               IF n >= 2 /\ IsContinuation(bs[2]) THEN 2 ELSE 0
         [] 224 <= b /\ b <= 239 ->
               IF /\ n >= 3 /\ IsContinuation(bs[2]) /\ IsContinuation(bs[3])
                  /\ (b = 224 => bs[2] >= 160)
                  /\ (b = 237 => bs[2] <= 159)
               THEN 3 ELSE 0
         [] 240 <= b /\ b <= 244 ->
               IF /\ n >= 4 /\ IsContinuation(bs[2]) /\ IsContinuation(bs[3])
                  /\ IsContinuation(bs[4])
                  /\ (b = 240 => bs[2] >= 144)
                  /\ (b = 244 => bs[2] <= 143)
               THEN 4 ELSE 0
         [] OTHER -> 0

\* the code point a UTF-8 sequence of k bytes at the start of bs encodes
Utf8CodePoint(bs, k) ==
    CASE k = 1 -> bs[1]
      [] k = 2 -> (bs[1] - 192) * 64 + (bs[2] - 128)
      [] k = 3 -> (bs[1] - 224) * 4096 + (bs[2] - 128) * 64 + (bs[3] - 128)
      [] k = 4 -> (bs[1] - 240) * 262144 + (bs[2] - 128) * 4096
                  + (bs[3] - 128) * 64 + (bs[4] - 128)

RECURSIVE Utf8Decode(_)
\* String::from_utf8: the characters of bs, or an error if bs is not UTF-8
Utf8Decode(bs) ==
    IF bs = <<>> THEN [ok |-> TRUE, value |-> <<>>]
    ELSE With(Utf8SequenceLen(bs), LAMBDA k :
         IF k = 0 THEN [ok |-> FALSE, value |-> <<>>]
         ELSE With(Utf8Decode(SubSeq(bs, k + 1, Len(bs))), LAMBDA rest :
              IF rest.ok
              THEN [ok |-> TRUE, value |-> <<Utf8CodePoint(bs, k)>> \o rest.value]
              ELSE rest))

\* the UTF-8 bytes of one character
Utf8EncodeChar(c) ==
    IF c < 128 THEN <<c>>
    ELSE IF c < 2048 THEN <<192 + (c \div 64), 128 + (c % 64)>>
    ELSE IF c < 65536
         THEN <<224 + (c \div 4096), 128 + ((c \div 64) % 64), 128 + (c % 64)>>
    ELSE <<240 + (c \div 262144), 128 + ((c \div 4096) % 64),
           128 + ((c \div 64) % 64), 128 + (c % 64)>>

RECURSIVE Utf8Encode(_)
\* String::as_bytes: the bytes of a text
Utf8Encode(text) ==
    IF text = <<>> THEN <<>> ELSE Utf8EncodeChar(text[1]) \o Utf8Encode(Tail(text))

\* std::fs::read(OUT_DIR/res/file_name)
Fs_read(dir, file_name) ==
    IF file_name \in DOMAIN dir /\ dir[file_name].readable
    THEN [ok |-> TRUE, value |-> dir[file_name].bytes]
    ELSE [ok |-> FALSE, value |-> <<>>]

\* std::fs::read_to_string(OUT_DIR/res/file_name)
Fs_read_to_string(dir, file_name) ==
    With(Fs_read(dir, file_name), LAMBDA r :
        IF r.ok THEN Utf8Decode(r.value) ELSE r)

\* variant of load_string that never fails on the content: bytes that are
\* not UTF-8 become U+FFFD, one for each
load_string_Lossy(dir, file_name) ==
    With(Fs_read(dir, file_name), LAMBDA r :
        IF ~r.ok \/ Utf8Decode(r.value).ok THEN Fs_read_to_string(dir, file_name)
        ELSE [ok |-> TRUE, value |-> [i \in 1..Len(r.value) |-> 65533]])

\* resources::load_string
load_string(dir, file_name) == Fs_read_to_string(dir, file_name)

\* resources::load_binary
load_binary(dir, file_name) == Fs_read(dir, file_name)

\* the bytes files are made of: H; the two bytes of e-acute; the three bytes
\* of the euro sign; a byte no UTF-8 text holds
FileBytes == {72, 195, 169, 226, 130, 172, 255}

RECURSIVE ByteStringsUpTo(_)
\* the byte strings of length at most n over FileBytes
ByteStringsUpTo(n) ==
    IF n = 0 THEN {<<>>}
    ELSE LET shorter == ByteStringsUpTo(n - 1)
         IN shorter \cup {Append(bs, b) : bs \in shorter, b \in FileBytes}

\* the file names asked for: the tests' file, a second file, a name the
\* directory does not hold
FileNames == {"test_files/hello_world.txt", "file", "missing"}

\* a resource directory holding the tests' file and a second entry, readable
\* with any content or unreadable
InitResources ==
    /\ down = {}
    /\ mouse_grabber = [mouse_locked |-> FALSE]
    /\ cursor_visible = TRUE
    /\ cc = CameraController_new
    /\ State_new_camera
    /\ world = World_new
    /\ models = World_new_models
    /\ frame = 0
    /\ pointer = 0
    /\ control_flow = "run"
    /\ spin_hist = <<>>
    /\ recolor_hist = [state |-> "none", material |-> 0, nav |-> FALSE, helped |-> FALSE]
    /\ State_new_window
    /\ loads = <<"loaded", "loaded">>
    /\ \E f \in {ReadableFile(bs) : bs \in ByteStringsUpTo(MaxFileLen)} \cup {UnreadableFile} :
          files = [name \in {"test_files/hello_world.txt", "file"} |->
                      IF name = "file" THEN f ELSE ResourceDir[name]]
    /\ last = [op |-> "new"]

\* what a load leaves alone
LoadUnchanged ==
    UNCHANGED <<down, mouse_grabber, cursor_visible, cc, camera, camera_uniform,
                camera_buffer, world, models, frame, pointer, control_flow,
                spin_hist, recolor_hist, window_vars, resource_vars>>

\* a call of load_string; last keeps the name and the result
LoadStringCall(file_name) ==
    /\ last' = [op |-> "load_string", name |-> file_name,
                result |-> load_string(files, file_name)]
    /\ LoadUnchanged

\* a call of load_binary; last keeps the name and the result
LoadBinaryCall(file_name) ==
    /\ last' = [op |-> "load_binary", name |-> file_name,
                result |-> load_binary(files, file_name)]
    /\ LoadUnchanged

LoadStringStep == \E n \in FileNames : LoadStringCall(n)
LoadBinaryStep == \E n \in FileNames : LoadBinaryCall(n)

NextResources == LoadStringStep \/ LoadBinaryStep

SpecResources == InitResources /\ [][NextResources]_vars

\* the file the last load named can be read
LastReadable == last.name \in DOMAIN files /\ files[last.name].readable

\* load_binary returns the bytes of a readable file and an error otherwise
BinaryLoads ==
    last.op = "load_binary" =>
        IF LastReadable
        THEN last.result.ok /\ last.result.value = files[last.name].bytes
        ELSE ~last.result.ok

\* C28 as stated: load_string returns the text of every readable file, a text
\* whose bytes are the bytes load_binary returns for it, and each returns an
\* error for a file that cannot be read
C28_EveryReadableFile ==
    /\ BinaryLoads
    /\ last.op = "load_string" =>
          IF LastReadable
          THEN last.result.ok /\ Utf8Encode(last.result.value) = files[last.name].bytes
          ELSE ~last.result.ok

\* C28 as amended: load_string returns the text of every readable file whose
\* content is UTF-8, a text whose bytes are the bytes load_binary returns for
\* it, and an error for a readable file whose content is not UTF-8;
\* load_binary returns the bytes of every readable file; each returns an
\* error for a file that cannot be read
C28_LoadTextAndBytes ==
    /\ BinaryLoads
    /\ last.op = "load_string" =>
          IF LastReadable /\ Utf8Decode(files[last.name].bytes).ok
          THEN last.result.ok /\ Utf8Encode(last.result.value) = files[last.name].bytes
          ELSE ~last.result.ok

\* load_string read a text of two characters from three bytes
C28_Witness ==
    /\ last.op = "load_string"
    /\ last.name = "file"
    /\ last.result.ok
    /\ Len(last.result.value) = 2
    /\ Len(files["file"].bytes) = 3

---------------------------------------------------------------------------
(* SpecInput: State::input called on key and button events, one at a time *)

InputKeys == {"Escape", "KeyW", "ArrowLeft", "KeyH", "KeyJ", "KeyZ"}
InputButtons == {"Left", "Right"}

\* the window events State::input is called on
InputEvents ==
    [kind : {"key"}, code : InputKeys, pressed : BOOLEAN, repeat : BOOLEAN]
        \cup [kind : {"button"}, button : InputButtons, pressed : BOOLEAN]

\* a call of State::input on a KeyboardInput event; last keeps the event and
\* what each consumer and input itself returned
InputKeyCall(e) ==
    /\ control_flow = "run"
    /\ KeyboardDelivers(e.code, e.pressed, e.repeat)
    /\ \E r \in {State_input_key(e.code, e.pressed, e.repeat)} :
          /\ mouse_grabber' = r.mouse_grabber
          /\ cursor_visible' = r.cursor_visible
          /\ cc' = r.cc
          /\ world' = r.world
          /\ last' = [op |-> "input", event |-> e, handled |-> r.handled,
                      result |-> r.result]
    /\ down' = IF e.pressed THEN down \cup {e.code} ELSE down \ {e.code}
    /\ spin_hist' = SpinHistory(spin_hist, e.code, e.pressed, e.repeat, world)
    /\ recolor_hist' = RecolorHistory(recolor_hist, e.code, e.pressed, e.repeat, world, models)
    /\ UNCHANGED <<camera, camera_uniform, camera_buffer, models, frame, pointer,
                   control_flow, window_vars, resource_vars>>

\* a call of State::input on a MouseInput event
InputButtonCall(e) ==
    /\ control_flow = "run"
    /\ \E r \in {State_input_button(e.button, e.pressed)} :
          /\ mouse_grabber' = r.mouse_grabber
          /\ cursor_visible' = r.cursor_visible
          /\ last' = [op |-> "input", event |-> e, handled |-> r.handled,
                      result |-> r.result]
    /\ UNCHANGED <<down, cc, camera, camera_uniform, camera_buffer, world, models,
                   frame, pointer, control_flow, spin_hist, recolor_hist,
                   window_vars, resource_vars>>

InputKeyStep == \E e \in {v \in InputEvents : v.kind = "key"} : InputKeyCall(e)
InputButtonStep == \E e \in {v \in InputEvents : v.kind = "button"} : InputButtonCall(e)
InputMotionStep ==
    /\ pointer < MaxInputPointer
    /\ MouseMotion(300, -900)

NextInput == InputKeyStep \/ InputButtonStep \/ InputMotionStep

SpecInput == Init /\ [][NextInput]_vars

\* the step is a call of State::input
InputCalled == last'.op = "input"

\* the step is a mouse-motion event
MotionHandled == pointer' = pointer + 1

\* the event locks an unlocked grabber: a press of the left button
LocksGrabber(e) == e.kind = "button" /\ e.button = "Left" /\ e.pressed

\* the event unlocks a locked grabber: a press of Escape
UnlocksGrabber(e) == e.kind = "key" /\ e.code = "Escape" /\ e.pressed

\* C31, as a step property
C31_GrabberStep ==
    /\ InputCalled =>
          IF LocksGrabber(last'.event) /\ ~mouse_grabber.mouse_locked
          THEN mouse_grabber'.mouse_locked /\ last'.handled.grabber
          ELSE IF UnlocksGrabber(last'.event) /\ mouse_grabber.mouse_locked
          THEN ~mouse_grabber'.mouse_locked /\ last'.handled.grabber
          ELSE /\ mouse_grabber'.mouse_locked = mouse_grabber.mouse_locked
               /\ ~last'.handled.grabber
    /\ MotionHandled => mouse_grabber'.mouse_locked = mouse_grabber.mouse_locked

\* C31: the mouse grabber changes state only by two transitions, unlocked to
\* locked on a left-button press and locked to unlocked on an Escape press;
\* every other event leaves the lock unchanged, and only the two
\* state-changing events are reported handled
C31_GrabberTransitions == [][C31_GrabberStep]_vars

\* a right-button press reached a grabber that Escape had unlocked again: the
\* lock stayed off and the event was not handled
C31_Witness ==
    /\ last.op = "input"
    /\ last.event.kind = "button" /\ last.event.button = "Right" /\ last.event.pressed
    /\ ~last.handled.grabber
    /\ ~mouse_grabber.mouse_locked
    /\ "Escape" \in down
    /\ cursor_visible

\* the camera controller's latch a movement or look key drives
LatchOf(code) ==
    CASE code = "KeyW"       -> "is_forward_pressed"
      [] code = "KeyA"       -> "is_left_pressed"
      [] code = "KeyS"       -> "is_backward_pressed"
      [] code = "KeyD"       -> "is_right_pressed"
      [] code = "Space"      -> "is_up_pressed"
      [] code = "ShiftLeft"  -> "is_down_pressed"
      [] code = "ArrowLeft"  -> "is_looking_left"
      [] code = "ArrowRight" -> "is_looking_right"
      [] code = "ArrowUp"    -> "is_looking_up"
      [] code = "ArrowDown"  -> "is_looking_down"

MovementAndLookKeys ==
    {"KeyW", "KeyA", "KeyS", "KeyD", "Space", "ShiftLeft",
     "ArrowLeft", "ArrowRight", "ArrowUp", "ArrowDown"}

\* the keys and buttons some consumer of State::input matches
RecognisedKeys == MovementAndLookKeys \cup {"KeyH", "KeyJ", "KeyK", "Digit1", "Digit2", "Digit3", "Escape"}
RecognisedButtons == {"Left"}

\* the event is an auto-repeat, or names a key or button no consumer matches
IgnoredEvent(e) ==
    IF e.kind = "key"
    THEN e.repeat \/ e.code \notin RecognisedKeys
    ELSE e.button \notin RecognisedButtons

\* C34, as a step property
C34_LatchStep ==
    InputCalled =>
        /\ IgnoredEvent(last'.event) =>
              /\ cc' = cc
              /\ world' = world
              /\ ~last'.handled.controller
              /\ ~last'.handled.world
        /\ (/\ last'.event.kind = "key"
            /\ ~last'.event.repeat
            /\ last'.event.code \in MovementAndLookKeys) =>
              /\ cc' = [cc EXCEPT ![LatchOf(last'.event.code)] = last'.event.pressed]
              /\ cc' # cc
              /\ world' = world

\* C34: an auto-repeat key event, and any event for a key or button no
\* consumer recognises, leaves every latch, toggle and mode flag of the camera
\* controller and the world unchanged and is reported not handled by them; a
\* non-repeat press or release of a movement or look key sets exactly that
\* key's latch to the pressed state and changes no other latch
C34_LatchPerKey == [][C34_LatchStep]_vars

\* a repeat of the held help key arrived after help was left with the forward
\* key held: the mode flags and the latch kept their values
C34_Witness ==
    /\ last.op = "input"
    /\ last.event.kind = "key" /\ last.event.code = "KeyH" /\ last.event.repeat
    /\ ~world.is_being_helped /\ ~cc.is_being_helped
    /\ cc.is_forward_pressed
    /\ ~last.handled.world /\ ~last.handled.controller

---------------------------------------------------------------------------
(* Escape across the grabber and the event loop, under SpecGrab *)

\* the step is a first press of Escape
EscapePressed == "Escape" \notin down /\ "Escape" \in down'

\* the step is a window event on which the event loop asks to exit
ExitOnEvent == control_flow = "run" /\ control_flow' = "exit" /\ frame' = frame

\* C37, as a step property
C37_EscapeStep ==
    /\ (EscapePressed /\ mouse_grabber.mouse_locked) =>
          ~mouse_grabber'.mouse_locked /\ control_flow' = "run"
    /\ (mouse_grabber.mouse_locked /\ ~mouse_grabber'.mouse_locked) =>
          "Escape" \in down' /\ control_flow' = "run"
    /\ (EscapePressed /\ ~mouse_grabber.mouse_locked) => control_flow' = "exit"
    /\ ExitOnEvent =>
          /\ EscapePressed
          /\ ~mouse_grabber.mouse_locked
          /\ ~State_input_key("Escape", TRUE, FALSE).result
          /\ UNCHANGED <<mouse_grabber, cursor_visible, cc, world>>

\* C37: an Escape press while the mouse is locked unlocks it and does not
\* exit; a non-repeat Escape press while the mouse is unlocked requests loop
\* exit, so from a locked state two Escape presses are needed to quit; no key
\* that a consumer handled triggers exit
C37_EscapeTwice == [][C37_EscapeStep]_vars

\* the loop was asked to exit after the mouse had been locked: a mouse motion
\* turned the camera, which takes a locked mouse, and the mouse is unlocked
\* again
C37_Witness ==
    /\ control_flow = "exit"
    /\ "Escape" \in down
    /\ cc.yaw # CameraController_new.yaw
    /\ ~mouse_grabber.mouse_locked
    /\ cursor_visible

---------------------------------------------------------------------------
(* SpecPointer: mouse motion, the wheel and window resizes *)

PointerKeys == {"KeyH", "Escape"}
PointerMotions == {<<300, -900>>}
PointerWheels == {[kind |-> "LineDelta", scroll |-> 1], [kind |-> "PixelDelta", scroll |-> 0]}
PointerSizes == {[width |-> 0, height |-> 600], [width |-> 1024, height |-> 512]}

PointerKeyStep ==
    \E k \in PointerKeys, p \in BOOLEAN, r \in BOOLEAN : KeyboardInput(k, p, r)
PointerButtonStep == \E p \in BOOLEAN : MouseInput("Left", p)
PointerMotionStep ==
    /\ pointer < MaxPointerEvents
    /\ \E m \in PointerMotions : MouseMotion(m[1], m[2])
PointerWheelStep ==
    /\ pointer < MaxPointerEvents
    /\ \E w \in PointerWheels : MouseWheel(w)
PointerResizedStep == \E s \in PointerSizes : Resized(s)
PointerRedrawStep ==
    /\ frame < MaxPointerFrames
    /\ RedrawRequested("Ok")

NextPointer ==
    \/ PointerKeyStep \/ PointerButtonStep \/ PointerMotionStep
    \/ PointerWheelStep \/ PointerResizedStep \/ PointerRedrawStep

SpecPointer == Init /\ [][NextPointer]_vars

\* the step handles a mouse-motion event
MotionEvent == last'.op = "event" /\ pointer' = pointer + 1 /\ last'.wheel = NoWheel

\* C32, as a step property
C32_MotionStep ==
    MotionEvent =>
        /\ camera' = camera
        /\ (mouse_grabber.mouse_locked /\ ~cc.is_being_helped) =>
              \E m \in PointerMotions :
                  /\ YawLaw(cc.yaw, m[1])
                  /\ cc'.pitch = ClampPitch(cc.pitch - m[2])
                  /\ [cc' EXCEPT !.yaw = cc.yaw, !.pitch = cc.pitch] = cc
        /\ ~(mouse_grabber.mouse_locked /\ ~cc.is_being_helped) => cc' = cc
        /\ mouse_grabber.mouse_locked =>
              cursor_position' = <<size.width \div 2, size.height \div 2>>

\* C32: a mouse-motion event changes yaw or pitch only when the mouse is
\* locked and the controller is navigating; when unlocked or helped it leaves
\* yaw, pitch and the camera unchanged; while locked, every mouse-motion event
\* re-centres the cursor
C32_MotionGated == [][C32_MotionStep]_vars

\* a motion turned the camera after the window had been resized: the cursor is
\* at the centre of the new size
C32_Witness ==
    /\ last.op = "event" /\ pointer >= 1 /\ last.wheel = NoWheel
    /\ mouse_grabber.mouse_locked /\ ~cc.is_being_helped
    /\ cc.yaw = CameraController_new.yaw + 300
    /\ size = [width |-> 1024, height |-> 512]
    /\ cursor_position = <<512, 256>>

\* the step handles a mouse-wheel event
WheelEvent == last'.op = "event" /\ pointer' = pointer + 1 /\ last'.wheel # NoWheel

\* the eye after a scroll along the forward direction
ScrolledEye(scroll) ==
    VAdd(camera.eye, VScale(Front(cc.yaw, cc.pitch), scroll * ScrollFactor, SpeedDivisor))

\* a scroll event never changes yaw, pitch or target
ScrollKeepsLook == cc' = cc /\ camera'.target = camera.target

\* C33 as stated: a line-delta scroll moves the eye whenever the controller
\* is navigating
C33_AsStatedStep ==
    WheelEvent =>
        /\ ScrollKeepsLook
        /\ IF ~cc.is_being_helped /\ last'.wheel.kind = "LineDelta"
           THEN camera' = [camera EXCEPT !.eye = ScrolledEye(last'.wheel.scroll)]
           ELSE camera' = camera

C33_ScrollWhileNavigating == [][C33_AsStatedStep]_vars

\* C33 as amended, as a step property
C33_AmendedStep ==
    WheelEvent =>
        /\ ScrollKeepsLook
        /\ IF /\ mouse_grabber.mouse_locked
              /\ ~cc.is_being_helped
              /\ last'.wheel.kind = "LineDelta"
           THEN camera' = [camera EXCEPT !.eye = ScrolledEye(last'.wheel.scroll)]
           ELSE camera' = camera

\* C33: a scroll event moves the camera eye, along the current forward
\* direction by scroll*speed*50, whenever the mouse is locked, the controller
\* is navigating and the delta is a line delta; while unlocked, while helped,
\* and for pixel deltas, the camera eye and target are left unchanged; a
\* scroll event never changes yaw, pitch or target
C33_ScrollMovesEye == [][C33_AmendedStep]_vars

\* a line scroll moved the eye of a navigating, locked camera
C33_Witness ==
    /\ last.op = "event" /\ pointer >= 1
    /\ last.wheel.kind = "LineDelta"
    /\ mouse_grabber.mouse_locked /\ ~cc.is_being_helped
    /\ camera.eye # Camera_new.eye
    /\ camera.eye # <<0, 0, 2000>>

---------------------------------------------------------------------------
(* The camera's aspect ratio across window resizes, under SpecPointer *)

\* the camera's aspect ratio is that of the configured surface
AspectMatchesSurface ==
    surface.configured => camera.aspect = Quot(surface.width * One, surface.height)

\* an event either leaves the stored size and the surface configuration alone
\* or stores a size with no zero dimension and configures the surface with it
ZeroResizeIgnored ==
    last'.op = "event" =>
        \/ UNCHANGED <<size, config, surface>>
        \/ /\ size'.width > 0 /\ size'.height > 0
           /\ config' = size'
           /\ surface' = [configured |-> TRUE, width |-> size'.width,
                          height |-> size'.height]

\* C39: after every window resize to a non-zero size the camera's aspect
\* ratio equals the new surface width divided by its height; a resize with
\* width or height 0 leaves the stored size and surface configuration unchanged
C39_AspectFollowsResize == []AspectMatchesSurface /\ [][ZeroResizeIgnored]_vars

---------------------------------------------------------------------------
(* The visible grid and the world state, under SpecGrid *)

\* instance i of a grid of n by n cells is the one for cell (x, z) with
\* i = z * n + x + 1; its position is (3 * (x - n / 2), 0, 3 * (z - n / 2))
AtCell(inst, i, n) ==
    LET x == (i - 1) % n
        z == (i - 1) \div n
    IN /\ 2 * inst.position[1] = One * SPACE_BETWEEN * (2 * x - n)
       /\ inst.position[2] = 0
       /\ 2 * inst.position[3] = One * SPACE_BETWEEN * (2 * z - n)

\* C35: whenever the grid model (index 0) is visible after an Update, its
\* instance list has exactly N*N instances, every instance has scale cur_scale,
\* and the instance for grid cell (x, z) is at (3*(x - N/2), 0, 3*(z - N/2))
C35_GridReflectsWorld ==
    (last.op = "update" /\ models[1].visible) =>
        /\ Len(GridList) = world.num_instances * world.num_instances
        /\ \A i \in 1..Len(GridList) :
              /\ GridList[i].scale = world.cur_scale
              /\ AtCell(GridList[i], i, world.num_instances)

---------------------------------------------------------------------------
(* Help mode and the world's keys, under SpecWorld *)

\* the step is an Update run with the world in help mode
HelpedUpdate == frame' = frame + 1 /\ world.is_being_helped

\* the step is the first navigating Update after help was left
FirstNavigatingUpdate ==
    frame' = frame + 1 /\ ~world.is_being_helped /\ world.is_help_just_pressed

\* an Update in help mode leaves the grid and what drives it unchanged
HelpFreezesWorld ==
    HelpedUpdate =>
        /\ world'.num_instances = world.num_instances
        /\ world'.cur_angle = world.cur_angle
        /\ world'.cur_scale = world.cur_scale
        /\ world'.is_upscalling = world.is_upscalling
        /\ models'[1].meshes[1].material = models[1].meshes[1].material
        /\ models'[1].instances = models[1].instances

\* key k goes down, or up, in the step
Pressed(k) == k \notin down /\ k \in down'
Released(k) == k \in down /\ k \notin down'

\* a key event received while helped updates the key's latch or toggle
HelpedKeysLatch ==
    world.is_being_helped =>
        /\ Pressed("KeyJ") => world'.is_increase_pressed
        /\ Released("KeyJ") => ~world'.is_increase_pressed
        /\ Pressed("KeyK") => world'.is_decrease_pressed
        /\ Released("KeyK") => ~world'.is_decrease_pressed
        /\ Pressed("Digit2") => world'.is_color_change
        /\ Released("Digit2") => ~world'.is_color_change
        /\ Pressed("Digit3") => world'.is_resize = ~world.is_resize
        /\ Released("Digit3") => world'.is_resize = world.is_resize

\* the count keys and the resize toggle, as the events in help mode left
\* them, act in the first navigating Update
LevelsTakeEffect ==
    FirstNavigatingUpdate =>
        /\ ("KeyJ" \in down /\ "KeyK" \notin down) =>
              world'.num_instances = world.num_instances + 1
        /\ ("KeyK" \in down /\ "KeyJ" \notin down /\ world.num_instances > 0) =>
              world'.num_instances = world.num_instances - 1
        /\ world.is_resize => world'.cur_scale # world.cur_scale

\* a recolor press received in help mode and still held acts in the first
\* navigating Update: the material index advances
RecolorTakesEffect ==
    (/\ FirstNavigatingUpdate
     /\ recolor_hist.state = "held"
     /\ recolor_hist.helped) =>
        models'[1].meshes[1].material =
            (models[1].meshes[1].material + 1) % models[1].materials

\* C40: while the world is in help mode an Update leaves N, cur_angle,
\* cur_scale, the resize direction, the active material index and the grid
\* model's instance list unchanged, whatever keys are held or toggled; key
\* events received while helped still update the latches and toggles, which
\* take effect from the first navigating Update
C40_HelpGatesWorld ==
    [][HelpFreezesWorld /\ HelpedKeysLatch /\ LevelsTakeEffect /\ RecolorTakesEffect]_vars

=============================================================================
